---- MODULE Spec2Model ----
(***************************************************************************)
(* A model of the mixed-reality core of BB999/imsdk (MRroom):              *)
(*   - HitTestManager   (src/MRroom/src/core/HitTestManager.ts), the       *)
(*     Surface Tracker: hit-test sources, per-frame poll, reticle, spawn.  *)
(*   - InteractionManager (src/unnamed/part_002), the Selection            *)
(*     Controller: pointer picking, hover / selection, highlight ledger.   *)
(*   - HitTestSystem, InteractionSystem (src/MRroom/src/systems) and the   *)
(*     XR store (src/MRroom/src/stores/xrStore.ts) of the entity-based     *)
(*     version of the app.                                                 *)
(* Each handler of the code is one action; an async function is one action *)
(* per await-delimited segment.                                            *)
(***************************************************************************)
EXTENDS Integers, Sequences, FiniteSets, TLC

(***************************************************************************)
(* Bounds of the model.                                                    *)
(***************************************************************************)
MaxSessions == 1
MaxSpawn == 4
MaxTeardownSpawn == 1
MaxHandReqs == 2
MaxPulses == 2
MaxObjects == 2
MaxDisposeCalls == 2
MaxSysSessions == 2
MaxEntities == 2
MaxCalls == 3

(***************************************************************************)
(* Value domains.                                                          *)
(***************************************************************************)
\* World positions a resolved pose can have; Origin is new THREE.Vector3().
Positions == {"p1", "p2"}
Origin == "origin"
Identity == "identity"
\* What hit.getPose(referenceSpace) does for one XRHitTestResult: it returns
\* a pose at a position, returns null, or throws.
PoseNull == "null"
PoseThrows == "throws"
HitResults == Positions \cup {PoseNull, PoseThrows}
\* The result lists frame.getHitTestResults(source) may return.
ResultLists ==
    { <<>>, <<"p1">>, <<"p2", "p1">>, <<PoseNull, "p1">>, <<PoseThrows>> }
\* Input devices of a session and their handedness.
Devices == {"r1", "l1"}
Handedness(d) == IF d = "l1" THEN "left" ELSE "right"
HasTargetRaySpace(d) == TRUE
NoDevice == "none"
\* Reference-space kinds.
NoSpace == [kind |-> "null", session |-> 0]
\* Colours (hex values of the source, in decimal).
ReticleGreen == 65280
ReticleYellow == 16776960
CubeRed == 16711680
SphereGreen == 65280
BoxBlue == 255
HoverColor == 65280
SelectColor == 16711935
Black == 0
White == 16777215
DefaultHighlight == 65280
GrabHighlight == 16711935
\* emissiveIntensity = 0.3, in tenths.
HighlightIntensity == 3
\* mesh.position.y += 0.05, in hundredths.
Nudge == 5

SetupFailed == "Hit test setup failed"
NoError == "none"

VARIABLES
    \* ---- HitTestManager fields
    reticleHeld,        \* this.reticleMesh !== null
    reticle,            \* the reticle mesh object: visible, matrix, color, inScene, disposed
    hitTestSource,      \* 0 (null) or a source id
    rightHandHitTestSource,
    rightHandInputSource,
    referenceSpace,     \* [kind, session]
    lastHitPosition,
    placedObjects,      \* sequence of meshes
    objectCounter,
    session,            \* this.session: 0 (null) or a session id
    inputSourcesChangeListener,  \* 0 (null) or the id of the closure
    sessionEndListener,
    \* ---- the scene and the store
    sceneObjects,       \* ids of the placed meshes that are children of the scene
    store,              \* the zustand store's published values
    \* ---- the XR runtime and the pending asynchronous work
    xrSession,          \* the session renderer.xr presents: 0 when not presenting
    nSessions,          \* sessions started so far
    connected,          \* session.inputSources
    sessListeners,      \* listeners registered on session objects
    sources,            \* every XRHitTestSource created: kind, session, cancels
    setupPc,            \* per session started: where onSessionStart(session) is suspended
    handReqs,           \* requestHitTestSource calls of setupRightHandHitTest in flight
    nHandReqs,
    pendingPulses,      \* setTimeout callbacks of the reticle pulse not yet fired
    last,               \* history: the HitTestManager handler that ran last, its inputs
    \* ---- the meshes' materials
    material,           \* per mesh id: color, emissive, emissiveIntensity
    \* ---- InteractionManager fields and its canvas
    pointer,            \* this.pointer, normalized device coordinates
    hoveredObject,      \* 0 (null) or a mesh id
    selectedObject,
    originalColors,     \* the ledger: mesh id -> colour recorded
    canvasListeners,    \* listeners registered on renderer.domElement
    bindCount,          \* functions created by Function.prototype.bind so far
    imLast,             \* history: the InteractionManager handler that ran last
    \* ---- the frame driver
    tick,               \* the animation-loop callback: position and calls made
    \* ---- the systems of the entity-based app and its store
    hts,                \* HitTestSystem: its fields, its session, what it published
    isys,               \* InteractionSystem: entities, mesh parts, ledger, selection
    xrs                 \* the XR store: world, xrState, isLoading, error, calls in flight

htFields == <<reticleHeld, reticle, hitTestSource, rightHandHitTestSource,
              rightHandInputSource, referenceSpace, lastHitPosition, placedObjects,
              objectCounter, session, inputSourcesChangeListener, sessionEndListener>>
htEnv == <<xrSession, nSessions, connected, sessListeners, sources,
           setupPc, handReqs, nHandReqs, pendingPulses>>
htVars == <<htFields, htEnv, sceneObjects, store, last>>
imFields == <<pointer, hoveredObject, selectedObject, originalColors, canvasListeners,
              bindCount, imLast>>
imVars == <<imFields, material>>
sysVars == <<hts, isys, xrs>>
vars == <<htVars, imVars, tick, sysVars>>

(***************************************************************************)
(* Helpers.                                                                *)
(***************************************************************************)
\* The history record of a handler that queried nothing.
NoQuery == [q |-> "no", res |-> <<>>]
LastOp(op) == [op |-> op, passed |-> FALSE, hand |-> NoQuery, gaze |-> NoQuery]
\* What frame.getHitTestResults(source) can do: return a list or throw.
Outcomes == {[q |-> "ok", res |-> l] : l \in ResultLists} \cup {[q |-> "throw", res |-> <<>>]}
\* The same for a source that belongs to a session that has ended: the frame
\* of another session has no results for it; the call throws or returns none.
StaleOutcomes == {[q |-> "ok", res |-> <<>>], [q |-> "throw", res |-> <<>>]}

\* XRHitTestSource.cancel() on source id (0: no source, nothing to cancel).
Cancel(srcs, id) == IF id = 0 THEN srcs ELSE [srcs EXCEPT ![id].cancels = @ + 1]
NewSource(kind, s, d) == [kind |-> kind, session |-> s, dev |-> d, cancels |-> 0]
Listener(s, type, fn) == [sess |-> s, type |-> type, fn |-> fn]
\* session.inputSources of session s: the connected devices while s is presented.
InputSources(s) == IF xrSession = s THEN connected ELSE {}

\* trySetupRightHand's test (HitTestManager.ts line 81).
IsRightHand(d) == Handedness(d) = "right" /\ HasTargetRaySpace(d)

\* (mutant) the type taken from the counter before its increment.
ObjectTypeBeforeIncrement(counter) == (counter - 1) % 3
\* this.objectCounter % 3 and the switch over it.
ObjectType(counter) == counter % 3
ShapeOf(type) ==
    CASE type = 0 -> "cube"
      [] type = 1 -> "sphere"
      [] OTHER    -> "elongated box"
ColorOf(type) ==
    CASE type = 0 -> CubeRed
      [] type = 1 -> SphereGreen
      [] OTHER    -> BoxBlue
\* (mutant) the mesh is left at the origin, without the position copy.
NewMeshAtOrigin(counter, at) ==
    [id |-> counter, shape |-> ShapeOf(ObjectType(counter)),
     pos |-> Origin, lift |-> Nudge, interactive |-> TRUE]
\* new THREE.Mesh(...), positioned at lastHitPosition and lifted by the nudge.
NewMesh(counter, at) ==
    [id |-> counter, shape |-> ShapeOf(ObjectType(counter)),
     pos |-> at, lift |-> Nudge, interactive |-> TRUE]
\* new THREE.MeshStandardMaterial({color, ...}): no emissive colour, and the
\* library's default emissiveIntensity of 1 (in tenths).
NewMaterial(counter) ==
    [color |-> ColorOf(ObjectType(counter)), emissive |-> Black, emissiveIntensity |-> 10]

\* (mutant) setReticleColor writes the attention colour whatever it is given.
SetReticleColorAlwaysYellow(r, held, color) ==
    IF held THEN [r EXCEPT !.color = ReticleYellow] ELSE r
\* (mutant) setReticleColor without the test of this.reticleMesh.
SetReticleColorUnguarded(r, held, color) == [r EXCEPT !.color = color]
\* setReticleColor(color): writes only while the reticle is held.
SetReticleColor(r, held, color) == IF held THEN [r EXCEPT !.color = color] ELSE r

(***************************************************************************)
(* The state after new HitTestManager(renderer, scene).                    *)
(***************************************************************************)
HTInit ==
    /\ reticleHeld = TRUE
    /\ reticle = [visible |-> FALSE, matrix |-> Identity, color |-> ReticleGreen,
                  inScene |-> TRUE, disposed |-> FALSE]
    /\ hitTestSource = 0
    /\ rightHandHitTestSource = 0
    /\ rightHandInputSource = NoDevice
    /\ referenceSpace = NoSpace
    /\ lastHitPosition = Origin
    /\ placedObjects = <<>>
    /\ objectCounter = 0
    /\ session = 0
    /\ inputSourcesChangeListener = 0
    /\ sessionEndListener = 0
    /\ sceneObjects = {}
    /\ store = [reticleVisible |-> FALSE, hitTestResults |-> <<>>, error |-> NoError,
                selectedObjectId |-> 0, hoveredObjectId |-> 0]
    /\ xrSession = 0
    /\ nSessions = 0
    /\ connected = {}
    /\ sessListeners = {}
    /\ sources = <<>>
    /\ setupPc = <<>>
    /\ handReqs = {}
    /\ nHandReqs = 0
    /\ pendingPulses = 0
    /\ last = LastOp("new")
    /\ material = <<>>

(***************************************************************************)
(* clearRightHandHitTest and the synchronous part of setupRightHandHitTest *)
(* (up to its await), as functions of the fields they touch.               *)
(***************************************************************************)
\* The devices among ds for which trySetupRightHand calls setupRightHandHitTest.
RightHands(ds) == {d \in ds : IsRightHand(d)}
\* sources after setupRightHandHitTest ran (synchronously) for each of ds.
SourcesAfterSetup(ds) ==
    IF RightHands(ds) = {} THEN sources ELSE Cancel(sources, rightHandHitTestSource)
RightHandAfterSetup(ds) ==
    IF RightHands(ds) = {} THEN rightHandHitTestSource ELSE 0
RightInputAfterSetup(ds) ==
    IF RightHands(ds) = {} THEN rightHandInputSource ELSE NoDevice
\* the requests issued: one per right-hand device.  The test of line 317 passes
\* whenever the function is called: its callers exist only past the same test of
\* the same session at line 70.
RequestsOf(s, ds) ==
    {[sess |-> s, dev |-> d, n |-> nHandReqs + 1] : d \in RightHands(ds)}

(***************************************************************************)
(* The XR runtime starts a session (App.handleEnterAR): renderer.xr fires  *)
(* 'sessionstart', on which setupTapListener registers handleSelect on the *)
(* session, and the app calls onSessionStart(session), which runs up to    *)
(* its first await.  The app starts sessions while it is mounted, that is  *)
(* before it disposes the manager.                                         *)
(***************************************************************************)
XRSessionStart(maxSessions) ==
    /\ xrSession = 0
    /\ reticleHeld
    /\ nSessions < maxSessions
    /\ LET s == nSessions + 1 IN
       /\ xrSession' = s
       /\ nSessions' = s
       /\ connected' = {}
       /\ sessListeners' = sessListeners \cup {Listener(s, "select", 0)}
       /\ session' = s
       /\ setupPc' = Append(setupPc, "local-floor")
    /\ last' = LastOp("sessionstart")
    /\ UNCHANGED imVars
    /\ UNCHANGED <<reticleHeld, reticle, hitTestSource, rightHandHitTestSource,
                   rightHandInputSource, referenceSpace, lastHitPosition,
                   placedObjects, objectCounter, inputSourcesChangeListener,
                   sessionEndListener, sceneObjects, store, sources, handReqs,
                   nHandReqs, pendingPulses>>
    /\ UNCHANGED <<tick, sysVars>>

\* How a reference-space request of session s can settle: the user agent
\* answers it itself, so it resolves only while the session runs (its
\* continuation runs before the 'end' event is dispatched), and it can always
\* reject.
Resolutions(s) == IF xrSession = s THEN {TRUE, FALSE} ELSE {FALSE}
\* How a requestHitTestSource of session s can settle, running being the
\* session presented and started the number of sessions started: the source
\* is subscribed by the device, whose answer can arrive after the session has
\* ended, but not after a later session has started (the shutdown of a
\* session settles its requests before another session is granted). The
\* request can always reject.
SourceResolutions(s, running, started) ==
    IF running = s \/ (running = 0 /\ started = s) THEN {TRUE, FALSE} ELSE {FALSE}

\* (mutant) a catch block that only logs.
SetupCatchSilent(s) ==
    /\ store' = store
    /\ setupPc' = [setupPc EXCEPT ![s] = "done"]
\* The catch block of onSessionStart.
SetupCatch(s) ==
    /\ store' = [store EXCEPT !.error = SetupFailed]
    /\ setupPc' = [setupPc EXCEPT ![s] = "done"]

\* (mutant) the chain without the "local" attempt.
NextSpaceKindSkippingLocal(kind) ==
    CASE kind = "local-floor" -> "viewer"
      [] OTHER                -> "throw"
\* The next reference-space kind tried when requestReferenceSpace(kind) rejects.
NextSpaceKind(kind) ==
    CASE kind = "local-floor" -> "local"
      [] kind = "local"       -> "viewer"
      [] OTHER                -> "throw"

(***************************************************************************)
(* onSessionStart resumes from an await of requestReferenceSpace(kind) in  *)
(* the fallback chain (lines 58-66).                                       *)
(***************************************************************************)
ResumeReferenceSpace(s) ==
    /\ setupPc[s] \in {"local-floor", "local", "viewer"}
    /\ \E ok \in Resolutions(s) :
         IF ok
         THEN /\ referenceSpace' = [kind |-> setupPc[s], session |-> s]
              /\ setupPc' = [setupPc EXCEPT ![s] = "viewerSpace"]
              /\ UNCHANGED store
         ELSE /\ UNCHANGED referenceSpace
              /\ IF NextSpaceKind(setupPc[s]) = "throw"
                 THEN SetupCatch(s)
                 ELSE /\ setupPc' = [setupPc EXCEPT ![s] = NextSpaceKind(setupPc[s])]
                      /\ UNCHANGED store
    /\ last' = LastOp("setup")
    /\ UNCHANGED imVars
    /\ UNCHANGED <<reticleHeld, reticle, hitTestSource, rightHandHitTestSource,
                   rightHandInputSource, lastHitPosition, placedObjects,
                   objectCounter, session, inputSourcesChangeListener,
                   sessionEndListener, sceneObjects, xrSession, nSessions,
                   connected, sessListeners, sources, handReqs,
                   nHandReqs, pendingPulses>>
    /\ UNCHANGED <<tick, sysVars>>

(***************************************************************************)
(* onSessionStart resumes from the await of the viewer space (line 69) and *)
(* tests session.requestHitTestSource (lines 70-77).                       *)
(***************************************************************************)
ResumeViewerSpace(s) ==
    /\ setupPc[s] = "viewerSpace"
    /\ \E ok \in Resolutions(s), cap \in BOOLEAN :
         IF ok /\ cap
         THEN /\ setupPc' = [setupPc EXCEPT ![s] = "hitTestSource"]
              /\ UNCHANGED store
         ELSE SetupCatch(s)
    /\ last' = LastOp("setup")
    /\ UNCHANGED imVars
    /\ UNCHANGED <<htFields, sceneObjects, xrSession, nSessions,
                   connected, sessListeners, sources, handReqs, nHandReqs,
                   pendingPulses>>
    /\ UNCHANGED <<tick, sysVars>>

(***************************************************************************)
(* onSessionStart resumes from the await of requestHitTestSource (line 71) *)
(* and runs to its end: stores the gaze source, sets up the right hand for *)
(* the devices already connected, registers the two session listeners and  *)
(* clears the error (lines 74-115).                                        *)
(***************************************************************************)
ResumeHitTestSource(s) ==
    /\ setupPc[s] = "hitTestSource"
    /\ \E ok \in SourceResolutions(s, xrSession, nSessions) :
         IF ok
         THEN LET ds == InputSources(s) IN
              /\ nHandReqs + Cardinality(RightHands(ds)) <= MaxHandReqs
              /\ hitTestSource' = Len(sources) + 1
              /\ sources' = Append(SourcesAfterSetup(ds), NewSource("gaze", s, NoDevice))
              /\ rightHandHitTestSource' = RightHandAfterSetup(ds)
              /\ rightHandInputSource' = RightInputAfterSetup(ds)
              /\ handReqs' = handReqs \cup RequestsOf(s, ds)
              /\ nHandReqs' = nHandReqs + Cardinality(RequestsOf(s, ds))
              /\ sessListeners' = sessListeners \cup
                     {Listener(s, "inputsourceschange", s), Listener(s, "end", s)}
              /\ inputSourcesChangeListener' = s
              /\ sessionEndListener' = s
              /\ store' = [store EXCEPT !.error = NoError]
              /\ setupPc' = [setupPc EXCEPT ![s] = "done"]
         ELSE /\ SetupCatch(s)
              /\ UNCHANGED <<hitTestSource, sources, rightHandHitTestSource,
                             rightHandInputSource, handReqs, nHandReqs, sessListeners,
                             inputSourcesChangeListener, sessionEndListener>>
    /\ last' = LastOp("setup")
    /\ UNCHANGED imVars
    /\ UNCHANGED <<reticleHeld, reticle, referenceSpace, lastHitPosition,
                   placedObjects, objectCounter, session, sceneObjects, xrSession,
                   nSessions, connected, pendingPulses>>
    /\ UNCHANGED <<tick, sysVars>>

(***************************************************************************)
(* setupRightHandHitTest resumes from its await (lines 322-331).           *)
(***************************************************************************)
ResumeRightHand(r) ==
    /\ r \in handReqs
    /\ handReqs' = handReqs \ {r}
    /\ \E ok \in SourceResolutions(r.sess, xrSession, nSessions) :
         IF ok
         THEN /\ rightHandHitTestSource' = Len(sources) + 1
              /\ sources' = Append(sources, NewSource("hand", r.sess, r.dev))
              /\ rightHandInputSource' = r.dev
         ELSE UNCHANGED <<rightHandHitTestSource, sources, rightHandInputSource>>
    /\ last' = LastOp("righthand")
    /\ UNCHANGED imVars
    /\ UNCHANGED <<reticleHeld, reticle, hitTestSource, referenceSpace,
                   lastHitPosition, placedObjects, objectCounter, session,
                   inputSourcesChangeListener, sessionEndListener, sceneObjects,
                   store, xrSession, nSessions, connected,
                   sessListeners, setupPc, nHandReqs, pendingPulses>>
    /\ UNCHANGED <<tick, sysVars>>

(***************************************************************************)
(* The runtime reports an input device added.  When the session carries    *)
(* handleInputSourcesChange (lines 88-96) it runs: trySetupRightHand on    *)
(* the added device.                                                       *)
(***************************************************************************)
Listening(type) ==
    xrSession # 0 /\ \E l \in sessListeners : l.sess = xrSession /\ l.type = type

DeviceAdded(d) ==
    /\ xrSession # 0
    /\ d \notin connected
    /\ connected' = connected \cup {d}
    /\ IF Listening("inputsourceschange")
       THEN /\ nHandReqs + Cardinality(RightHands({d})) <= MaxHandReqs
            /\ sources' = SourcesAfterSetup({d})
            /\ rightHandHitTestSource' = RightHandAfterSetup({d})
            /\ rightHandInputSource' = RightInputAfterSetup({d})
            /\ handReqs' = handReqs \cup RequestsOf(xrSession, {d})
            /\ nHandReqs' = nHandReqs + Cardinality(RequestsOf(xrSession, {d}))
       ELSE UNCHANGED <<sources, rightHandHitTestSource, rightHandInputSource,
                        handReqs, nHandReqs>>
    /\ last' = LastOp("deviceadded")
    /\ UNCHANGED imVars
    /\ UNCHANGED <<reticleHeld, reticle, hitTestSource, referenceSpace,
                   lastHitPosition, placedObjects, objectCounter, session,
                   inputSourcesChangeListener, sessionEndListener, sceneObjects,
                   store, xrSession, nSessions, sessListeners, setupPc,
                   pendingPulses>>
    /\ UNCHANGED <<tick, sysVars>>

(***************************************************************************)
(* The runtime reports an input device removed: handleInputSourcesChange   *)
(* clears the right-hand source when the device is the one recorded.       *)
(***************************************************************************)
RemovedIsRightHand(d) == d = rightHandInputSource

DeviceRemoved(d) ==
    /\ xrSession # 0
    /\ d \in connected
    /\ connected' = connected \ {d}
    /\ IF Listening("inputsourceschange") /\ RemovedIsRightHand(d)
       THEN /\ sources' = Cancel(sources, rightHandHitTestSource)
            /\ rightHandHitTestSource' = 0
            /\ rightHandInputSource' = NoDevice
       ELSE UNCHANGED <<sources, rightHandHitTestSource, rightHandInputSource>>
    /\ last' = LastOp("deviceremoved")
    /\ UNCHANGED imVars
    /\ UNCHANGED <<reticleHeld, reticle, hitTestSource, referenceSpace,
                   lastHitPosition, placedObjects, objectCounter, session,
                   inputSourcesChangeListener, sessionEndListener, sceneObjects,
                   store, xrSession, nSessions, sessListeners, setupPc,
                   handReqs, nHandReqs, pendingPulses>>
    /\ UNCHANGED <<tick, sysVars>>

(***************************************************************************)
(* The session ends.  When it carries handleSessionEnd (lines 101-109) the *)
(* handler clears the right-hand source, removes the inputsourceschange    *)
(* listener from this.session and forgets the session and both listeners.  *)
(***************************************************************************)
\* removeEventListener: removes the listener that is this very function.
RemoveListener(ls, s, type, fn) ==
    IF s # 0 /\ fn # 0 THEN ls \ {Listener(s, type, fn)} ELSE ls

XRSessionEnd ==
    /\ xrSession # 0
    /\ xrSession' = 0
    /\ connected' = {}
    /\ IF Listening("end")
       THEN /\ sources' = Cancel(sources, rightHandHitTestSource)
            /\ rightHandHitTestSource' = 0
            /\ rightHandInputSource' = NoDevice
            /\ sessListeners' = RemoveListener(sessListeners, session,
                                    "inputsourceschange", inputSourcesChangeListener)
            /\ session' = 0
            /\ sessionEndListener' = 0
            /\ inputSourcesChangeListener' = 0
       ELSE UNCHANGED <<sources, rightHandHitTestSource, rightHandInputSource,
                        sessListeners, session, sessionEndListener,
                        inputSourcesChangeListener>>
    /\ last' = LastOp("sessionend")
    /\ UNCHANGED imVars
    /\ UNCHANGED <<reticleHeld, reticle, hitTestSource, referenceSpace,
                   lastHitPosition, placedObjects, objectCounter, sceneObjects,
                   store, nSessions, setupPc, handReqs, nHandReqs,
                   pendingPulses>>
    /\ UNCHANGED <<tick, sysVars>>

(***************************************************************************)
(* update(frame) (lines 125-165).  The frame driver passes a frame exactly *)
(* while a session is presented.  hand and gaze are what getHitTestResults *)
(* does for the source queried; the first result of the chosen list tells  *)
(* what getPose does.                                                      *)
(***************************************************************************)
\* What querying the held source id can do in a frame of the running session.
OutcomesOf(id) ==
    IF sources[id].session = xrSession THEN Outcomes ELSE StaleOutcomes
\* (mutant) the guard without the test of this.reticleMesh.
UpdateGuardWithoutReticle == xrSession # 0 /\ referenceSpace.kind # "null"
\* The precondition guard of line 126.
UpdateGuard == xrSession # 0 /\ reticleHeld /\ referenceSpace.kind # "null"
\* (mutant) the gaze source is queried whatever the hand source returned.
QueryGazeAlways(hand) == hand.q # "throw" /\ hitTestSource # 0
\* Line 137: the gaze source is queried when the list is still empty.
QueryGaze(hand) == hand.q # "throw" /\ Len(hand.res) = 0 /\ hitTestSource # 0
\* hitTestResults when the polling is over.
PollResults(hand, gaze) == IF gaze.q = "ok" THEN gaze.res ELSE hand.res
PollThrew(hand, gaze) == hand.q = "throw" \/ gaze.q = "throw"
\* Lines 145-156: the pose resolved.
ShowReticle(results, p) ==
    /\ reticle' = [reticle EXCEPT !.matrix = p, !.visible = TRUE]
    /\ lastHitPosition' = p
    /\ store' = [store EXCEPT !.hitTestResults = results, !.reticleVisible = TRUE]
\* (mutant) the reticle is hidden without publishing it.
HideReticleUnpublished ==
    /\ reticle' = [reticle EXCEPT !.visible = FALSE]
    /\ UNCHANGED <<store, lastHitPosition>>
\* Lines 157-161: no hit result.
HideReticle ==
    /\ reticle' = [reticle EXCEPT !.visible = FALSE]
    /\ store' = [store EXCEPT !.reticleVisible = FALSE]
    /\ UNCHANGED lastHitPosition
\* Lines 141-161, on the list polled.
ApplyPoll(results) ==
    IF Len(results) > 0
    THEN IF results[1] \in Positions
         THEN ShowReticle(results, results[1])
         ELSE UNCHANGED <<reticle, lastHitPosition, store>>
    ELSE HideReticle

Update ==
    /\ IF ~UpdateGuard
       THEN /\ last' = LastOp("update")
            /\ UNCHANGED <<reticle, lastHitPosition, store>>
       ELSE \E hand \in (IF rightHandHitTestSource # 0
                         THEN OutcomesOf(rightHandHitTestSource) ELSE {NoQuery}) :
            \E gaze \in (IF QueryGaze(hand) THEN OutcomesOf(hitTestSource) ELSE {NoQuery}) :
              /\ last' = [op |-> "update", passed |-> TRUE, hand |-> hand, gaze |-> gaze]
              /\ IF PollThrew(hand, gaze)
                 THEN UNCHANGED <<reticle, lastHitPosition, store>>
                 ELSE ApplyPoll(PollResults(hand, gaze))
    /\ UNCHANGED <<reticleHeld, hitTestSource, rightHandHitTestSource,
                   rightHandInputSource, referenceSpace, placedObjects,
                   objectCounter, session, inputSourcesChangeListener,
                   sessionEndListener, sceneObjects, htEnv, imVars>>

(***************************************************************************)
(* A select event of the presented session: handleSelect (lines 171-175)   *)
(* and spawnObjectAtHitPosition (lines 189-240).                           *)
(***************************************************************************)
\* (mutant) the gate without the visibility test.
SelectGateHeldOnly == reticleHeld
\* The gate of handleSelect.
SelectGate == reticleHeld /\ reticle.visible

SpawnObjectAtHitPosition ==
    /\ objectCounter' = objectCounter + 1
    /\ placedObjects' = Append(placedObjects, NewMesh(objectCounter + 1, lastHitPosition))
    /\ sceneObjects' = sceneObjects \cup {objectCounter + 1}
    /\ reticle' = SetReticleColor(reticle, reticleHeld, ReticleYellow)
    /\ material' = material @@ ((objectCounter + 1) :> NewMaterial(objectCounter + 1))
    /\ pendingPulses' = pendingPulses + 1

Select(maxSpawn) ==
    /\ Listening("select")
    /\ IF SelectGate
       THEN /\ objectCounter < maxSpawn
            /\ pendingPulses < MaxPulses
            /\ SpawnObjectAtHitPosition
       ELSE UNCHANGED <<objectCounter, placedObjects, sceneObjects, reticle,
                        pendingPulses, material>>
    /\ UNCHANGED imFields
    /\ last' = LastOp("select")
    /\ UNCHANGED <<reticleHeld, hitTestSource, rightHandHitTestSource,
                   rightHandInputSource, referenceSpace, lastHitPosition, session,
                   inputSourcesChangeListener, sessionEndListener, store,
                   xrSession, nSessions, connected, sessListeners,
                   sources, setupPc, handReqs, nHandReqs>>
    /\ UNCHANGED <<tick, sysVars>>

(***************************************************************************)
(* The setTimeout callback of the reticle pulse fires (lines 237-239).     *)
(***************************************************************************)
PulseTimeout ==
    /\ pendingPulses > 0
    /\ pendingPulses' = pendingPulses - 1
    /\ reticle' = SetReticleColor(reticle, reticleHeld, ReticleGreen)
    /\ last' = LastOp("timeout")
    /\ UNCHANGED imVars
    /\ UNCHANGED <<reticleHeld, hitTestSource, rightHandHitTestSource,
                   rightHandInputSource, referenceSpace, lastHitPosition,
                   placedObjects, objectCounter, session,
                   inputSourcesChangeListener, sessionEndListener, sceneObjects,
                   store, xrSession, nSessions, connected,
                   sessListeners, sources, setupPc, handReqs, nHandReqs>>
    /\ UNCHANGED <<tick, sysVars>>

(***************************************************************************)
(* dispose() (lines 268-306).                                              *)
(***************************************************************************)
\* Lines 269-274: both sources cancelled when held.
SourcesAfterDispose == Cancel(Cancel(sources, rightHandHitTestSource), hitTestSource)
\* (mutant) only the inputsourceschange listener is removed.
ListenersAfterDisposeKeepingEnd ==
    RemoveListener(sessListeners, session, "inputsourceschange",
                   inputSourcesChangeListener)
\* Lines 276-282: both session listeners removed from this.session.
ListenersAfterDispose ==
    RemoveListener(
        RemoveListener(sessListeners, session, "inputsourceschange",
                       inputSourcesChangeListener),
        session, "end", sessionEndListener)
\* Lines 288-293: the reticle removed from the scene and its resources released.
ReticleAfterDispose ==
    IF reticleHeld THEN [reticle EXCEPT !.inScene = FALSE, !.disposed = TRUE] ELSE reticle

Dispose ==
    /\ sources' = SourcesAfterDispose
    /\ rightHandHitTestSource' = 0
    /\ rightHandInputSource' = NoDevice
    /\ hitTestSource' = 0
    /\ sessListeners' = ListenersAfterDispose
    /\ session' = 0
    /\ inputSourcesChangeListener' = 0
    /\ sessionEndListener' = 0
    /\ reticle' = ReticleAfterDispose
    /\ reticleHeld' = FALSE
    /\ sceneObjects' = sceneObjects \ {placedObjects[i].id : i \in 1..Len(placedObjects)}
    /\ placedObjects' = <<>>
    /\ last' = LastOp("dispose")
    /\ UNCHANGED imVars
    /\ UNCHANGED <<referenceSpace, lastHitPosition, objectCounter, store, xrSession,
                   nSessions, connected, setupPc, handReqs, nHandReqs,
                   pendingPulses>>
    /\ UNCHANGED <<tick, sysVars>>

(***************************************************************************)
(* InteractionManager (src/unnamed/part_002).                              *)
(***************************************************************************)
IMLast(op, pick) == [op |-> op, pick |-> pick]
CanvasListener(type, fn) == [type |-> type, fn |-> fn]

\* The state after new InteractionManager(renderer, scene, camera): the
\* constructor binds onPointerMove and onClick and registers the two bound
\* functions on the canvas (setupEventListeners, lines 38-54).
IMInit ==
    /\ pointer = [x |-> 0, y |-> 0]
    /\ hoveredObject = 0
    /\ selectedObject = 0
    /\ originalColors = <<>>
    /\ canvasListeners = {CanvasListener("pointermove", 1), CanvasListener("click", 2)}
    /\ bindCount = 2
    /\ imLast = IMLast("new", 0)

\* (mutant) the handlers do not test renderer.xr.isPresenting.
NeverPresenting == FALSE
\* renderer.xr.isPresenting
IsPresenting == xrSession # 0
\* The canvas dispatches an event to the listeners registered for its type.
Dispatches(type) == \E l \in canvasListeners : l.type = type

\* Pointer events of a canvas whose bounding rect is 2 x 2 at (0, 0).
PointerEvents == {[clientX |-> 0, clientY |-> 0], [clientX |-> 1, clientY |-> 1],
                  [clientX |-> 2, clientY |-> 0]}
\* Lines 63-65: ((clientX - left) / width) * 2 - 1 and -((clientY - top) / height) * 2 + 1.
Normalized(ev) ==
    [x |-> ((ev.clientX - 0) * 2) \div 2 - 1, y |-> 0 - ((ev.clientY - 0) * 2) \div 2 + 1]

\* getIntersects (lines 122-131): the raycast is the renderer's; the nearest hit
\* is one of the scene's children flagged interactive, or there is none (0).
\* The reticle mesh among the scene's children (createReticle, line 48).
ReticleNode == -1
\* scene.children that a ray can hit: the reticle while it is in the scene, and
\* the placed meshes; each with its userData.interactive flag (the reticle
\* has none).
SceneChildren ==
    {[id |-> placedObjects[j].id, interactive |-> placedObjects[j].interactive] :
        j \in {k \in 1..Len(placedObjects) : placedObjects[k].id \in sceneObjects}}
    \cup (IF reticle.inScene THEN {[id |-> ReticleNode, interactive |-> FALSE]} ELSE {})
\* (mutant) the raycast runs against every child of the scene.
InteractiveObjectsUnfiltered == {c.id : c \in SceneChildren}
\* Lines 126-128: the children whose userData.interactive is true.
InteractiveObjects == {c.id : c \in {n \in SceneChildren : n.interactive}}
Picks == {0} \cup InteractiveObjects

\* highlightObject (lines 171-185) on a mesh: st is [mat, ledger].
\* (mutant) the ledger entry is overwritten on every highlight.
RecordOriginalAlways(ledger, o, color) == (o :> color) @@ ledger
\* Lines 175-177: the colour is recorded only if the ledger has no entry.
RecordOriginal(ledger, o, color) ==
    IF o \in DOMAIN ledger THEN ledger ELSE ledger @@ (o :> color)
\* (mutant) the colour is recorded after the highlight colour was applied.
HighlightObjectRecordingAfter(st, o, color) ==
    [mat |-> [st.mat EXCEPT ![o] = [color |-> color, emissive |-> color,
                                    emissiveIntensity |-> 3]],
     ledger |-> RecordOriginal(st.ledger, o, color)]
\* Line 173: only a Mesh with a MeshStandardMaterial is touched; those are the
\* meshes that have an entry in material.
HighlightObject(st, o, color) ==
    IF o \in DOMAIN st.mat
    THEN [mat |-> [st.mat EXCEPT ![o] = [color |-> color, emissive |-> color,
                                        emissiveIntensity |-> 3]],
          ledger |-> RecordOriginal(st.ledger, o, st.mat[o].color)]
    ELSE st
\* unhighlightObject (lines 190-202).
UnhighlightObject(st, o) ==
    IF o \in DOMAIN st.mat
    THEN [mat |-> [st.mat EXCEPT ![o] =
                      [color |-> IF o \in DOMAIN st.ledger THEN st.ledger[o] ELSE @.color,
                       emissive |-> Black, emissiveIntensity |-> 0]],
          ledger |-> st.ledger]
    ELSE st
Materials == [mat |-> material, ledger |-> originalColors]

(***************************************************************************)
(* A pointermove event on the canvas: onPointerMove (lines 59-66).         *)
(***************************************************************************)
PointerMove(ev) ==
    /\ Dispatches("pointermove")
    /\ pointer' = IF IsPresenting THEN pointer ELSE Normalized(ev)
    /\ imLast' = IMLast("pointermove", 0)
    /\ UNCHANGED <<hoveredObject, selectedObject, originalColors, canvasListeners,
                   bindCount, material, htVars>>
    /\ UNCHANGED <<tick, sysVars>>

(***************************************************************************)
(* A click event on the canvas: onClick (lines 71-82) with selectObject    *)
(* (lines 136-154) and deselectObject (lines 159-166).                     *)
(***************************************************************************)
\* deselectObject()
DeselectObject ==
    IF selectedObject # 0
    THEN LET st == UnhighlightObject(Materials, selectedObject) IN
         /\ material' = st.mat
         /\ originalColors' = st.ledger
         /\ selectedObject' = 0
         /\ store' = [store EXCEPT !.selectedObjectId = 0]
    ELSE UNCHANGED <<material, originalColors, selectedObject, store>>
\* (mutant) selectObject without the test for the object already selected.
SelectObjectNoToggle(o) ==
    LET st1 == IF selectedObject # 0
               THEN UnhighlightObject(Materials, selectedObject)
               ELSE Materials
        st2 == HighlightObject(st1, o, SelectColor)
    IN /\ material' = st2.mat
       /\ originalColors' = st2.ledger
       /\ selectedObject' = o
       /\ store' = [store EXCEPT !.selectedObjectId = o]
\* selectObject(object)
SelectObject(o) ==
    IF selectedObject = o
    THEN DeselectObject
    ELSE LET st1 == IF selectedObject # 0
                    THEN UnhighlightObject(Materials, selectedObject)
                    ELSE Materials
             st2 == HighlightObject(st1, o, SelectColor)
         IN /\ material' = st2.mat
            /\ originalColors' = st2.ledger
            /\ selectedObject' = o
            /\ store' = [store EXCEPT !.selectedObjectId = o]

Click ==
    /\ Dispatches("click")
    /\ IF IsPresenting
       THEN /\ imLast' = IMLast("click", 0)
            /\ UNCHANGED <<material, originalColors, selectedObject, store>>
       ELSE \E pick \in Picks :
              /\ imLast' = IMLast("click", pick)
              /\ IF pick # 0 THEN SelectObject(pick) ELSE DeselectObject
    /\ UNCHANGED <<pointer, hoveredObject, canvasListeners, bindCount>>
    /\ UNCHANGED <<htFields, htEnv, sceneObjects, last>>
    /\ UNCHANGED <<tick, sysVars>>

(***************************************************************************)
(* update() (lines 87-117).                                                *)
(***************************************************************************)
\* (mutant) the hover moves without unhighlighting the object hovered before.
HoverObjectKeepingOld(o) ==
    LET st2 == HighlightObject(Materials, o, HoverColor)
    IN /\ material' = st2.mat
       /\ originalColors' = st2.ledger
       /\ hoveredObject' = o
       /\ store' = [store EXCEPT !.hoveredObjectId = o]
\* Lines 97-108: the hover moves to the picked object.
HoverObject(o) ==
    LET st1 == IF hoveredObject # 0
               THEN UnhighlightObject(Materials, hoveredObject)
               ELSE Materials
        st2 == HighlightObject(st1, o, HoverColor)
    IN /\ material' = st2.mat
       /\ originalColors' = st2.ledger
       /\ hoveredObject' = o
       /\ store' = [store EXCEPT !.hoveredObjectId = o]
\* Lines 110-115: nothing is picked.
UnhoverObject ==
    IF hoveredObject # 0
    THEN LET st == UnhighlightObject(Materials, hoveredObject) IN
         /\ material' = st.mat
         /\ originalColors' = st.ledger
         /\ hoveredObject' = 0
         /\ store' = [store EXCEPT !.hoveredObjectId = 0]
    ELSE UNCHANGED <<material, originalColors, hoveredObject, store>>

IMUpdate ==
    /\ IF IsPresenting
       THEN /\ imLast' = IMLast("update", 0)
            /\ UNCHANGED <<material, originalColors, hoveredObject, store>>
       ELSE \E pick \in Picks :
              /\ imLast' = IMLast("update", pick)
              /\ IF pick = 0
                 THEN UnhoverObject
                 ELSE IF hoveredObject # pick
                      THEN HoverObject(pick)
                      ELSE UNCHANGED <<material, originalColors, hoveredObject, store>>
    /\ UNCHANGED <<pointer, selectedObject, canvasListeners, bindCount>>
    /\ UNCHANGED <<htFields, htEnv, sceneObjects, last>>

(***************************************************************************)
(* dispose() (lines 207-215): removeEventListener is called with two newly *)
(* bound functions, then the ledger and both references are cleared.       *)
(***************************************************************************)
\* canvas.removeEventListener(type, fn): removes the listener that is fn.
RemoveCanvasListener(ls, type, fn) == ls \ {CanvasListener(type, fn)}
ListenersAfterIMDispose ==
    RemoveCanvasListener(
        RemoveCanvasListener(canvasListeners, "pointermove", bindCount + 1),
        "click", bindCount + 2)

IMDispose ==
    /\ bindCount < 2 + 2 * MaxDisposeCalls
    /\ canvasListeners' = ListenersAfterIMDispose
    /\ bindCount' = bindCount + 2
    /\ originalColors' = <<>>
    /\ hoveredObject' = 0
    /\ selectedObject' = 0
    /\ imLast' = IMLast("dispose", 0)
    /\ UNCHANGED <<pointer, material, htVars>>
    /\ UNCHANGED <<tick, sysVars>>

(***************************************************************************)
(* The environment of the InteractionManager: sessions start and end, and  *)
(* a select event that passes handleSelect's gate places a mesh.           *)
(***************************************************************************)
ObjectPlaced(maxObjects) ==
    /\ Listening("select")
    /\ reticleHeld
    /\ objectCounter < maxObjects
    /\ SpawnObjectAtHitPosition
    /\ last' = LastOp("select")
    /\ UNCHANGED <<reticleHeld, hitTestSource, rightHandHitTestSource,
                   rightHandInputSource, referenceSpace, lastHitPosition, session,
                   inputSourcesChangeListener, sessionEndListener, store,
                   xrSession, nSessions, connected, sessListeners,
                   sources, setupPc, handReqs, nHandReqs, imFields>>
    /\ UNCHANGED <<tick, sysVars>>

(***************************************************************************)
(* The HitTestManager and its environment.  The specifications run         *)
(* the same handlers in different environments:                            *)
(*   PollSpec   a right-hand and a left-hand device: the per-frame poll    *)
(*              over the gaze and the hand source;                         *)
(*   SpawnSpec  no hand devices: poll, select events, spawns and the       *)
(*              reticle pulse;                                             *)
(*   TeardownSpec  a right-hand device and spawns: dispose() with sources, *)
(*              listeners and placed objects;                              *)
(*   ReentrySpec   one session more, entered after the earlier one ended,  *)
(*              no hand devices: poll and select events across sessions;   *)
(*   FrameSpec  both managers driven by the animation-loop callback.       *)
(* update() reads no field that a spawn writes, a spawn reads of the poll  *)
(* only reticle.visible and lastHitPosition, and the source bookkeeping    *)
(* reads neither.                                                          *)
(***************************************************************************)
TeardownDevices == {"r1"}
Started == 1..nSessions

SetupSteps ==
    \/ \E s \in Started : ResumeReferenceSpace(s)
    \/ \E s \in Started : ResumeViewerSpace(s)
    \/ \E s \in Started : ResumeHitTestSource(s)

PollNext ==
    \/ XRSessionStart(MaxSessions)
    \/ SetupSteps
    \/ \E r \in handReqs : ResumeRightHand(r)
    \/ \E d \in Devices : DeviceAdded(d)
    \/ \E d \in Devices : DeviceRemoved(d)
    \/ XRSessionEnd
    \/ Update /\ UNCHANGED <<tick, sysVars>>
    \/ Dispose

SpawnNext ==
    \/ XRSessionStart(MaxSessions)
    \/ SetupSteps
    \/ XRSessionEnd
    \/ Update /\ UNCHANGED <<tick, sysVars>>
    \/ Select(MaxSpawn)
    \/ PulseTimeout
    \/ Dispose

TeardownNext ==
    \/ XRSessionStart(MaxSessions)
    \/ SetupSteps
    \/ \E r \in handReqs : ResumeRightHand(r)
    \/ \E d \in TeardownDevices : DeviceAdded(d)
    \/ XRSessionEnd
    \/ Update /\ UNCHANGED <<tick, sysVars>>
    \/ Select(MaxTeardownSpawn)
    \/ Dispose

ReentryNext ==
    \/ XRSessionStart(MaxSessions + 1)
    \/ SetupSteps
    \/ XRSessionEnd
    \/ Update /\ UNCHANGED <<tick, sysVars>>
    \/ Select(MaxTeardownSpawn)

IMNext ==
    \/ XRSessionStart(MaxSessions)
    \/ XRSessionEnd
    \/ ObjectPlaced(MaxObjects)
    \/ \E ev \in PointerEvents : PointerMove(ev)
    \/ Click
    \/ IMUpdate /\ UNCHANGED <<tick, sysVars>>
    \/ IMDispose

(***************************************************************************)
(* The frame driver: the callback given to renderer.setAnimationLoop       *)
(* (Playground.tsx lines 190-198).  The callback is synchronous, so no     *)
(* event handler and no promise continuation runs while a tick is in       *)
(* progress; tick.calls lists the calls the current tick has made.         *)
(***************************************************************************)
LoopInit == tick = [pc |-> "idle", calls |-> <<>>]
Idle == tick.pc = "idle"
\* (mutant) the selection update called before the tracker update.
TickOrderSelectionFirst == <<"selection", "tracker", "render">>
\* The calls of one tick, in the order of the callback's statements.
TickOrder == <<"tracker", "selection", "render">>
\* The call that follows the i-th call of the tick, "idle" after the last.
NextCall(i) == IF i < Len(TickOrder) THEN TickOrder[i + 1] ELSE "idle"

\* Where the update() recorded in l threw, if anywhere.
ThrowSites(l) ==
    IF l.op = "update" /\ l.passed
    THEN (IF PollThrew(l.hand, l.gaze) THEN {"getHitTestResults"} ELSE {})
         \cup (IF /\ ~PollThrew(l.hand, l.gaze)
                  /\ Len(PollResults(l.hand, l.gaze)) > 0
                  /\ PollResults(l.hand, l.gaze)[1] = PoseThrows
               THEN {"getPose"} ELSE {})
    ELSE {}
\* (mutant) the try block closed before the getPose call.
InTryBlockBeforePose(site) == site \in {"getHitTestResults"}
\* The calls inside update()'s try block (HitTestManager.ts lines 130-162).
InTryBlock(site) == site \in {"getHitTestResults", "getPose"}
\* The exception of the update() recorded in l leaves update().
Escapes(l) == \E site \in ThrowSites(l) : ~InTryBlock(site)

\* The i-th call of the tick returned: the callback goes on to the next one.
Returned(i) == tick' = [pc |-> NextCall(i), calls |-> Append(tick.calls, TickOrder[i])]
\* The i-th call of the tick threw: the callback is left.
Raised(i) == tick' = [pc |-> "idle", calls |-> Append(tick.calls, TickOrder[i])]

\* The renderer invokes the callback.
BeginTick ==
    /\ Idle
    /\ tick' = [pc |-> TickOrder[1], calls |-> <<>>]
    /\ UNCHANGED <<htVars, imVars, sysVars>>
\* hitTestManagerRef.current.update(frame)
TrackerUpdate ==
    /\ tick.pc = "tracker"
    /\ Update
    /\ \E i \in 1..Len(TickOrder) :
          /\ TickOrder[i] = "tracker"
          /\ IF Escapes(last') THEN Raised(i) ELSE Returned(i)
    /\ UNCHANGED sysVars
\* interactionManagerRef.current.update()
SelectionUpdate ==
    /\ tick.pc = "selection"
    /\ IMUpdate
    /\ \E i \in 1..Len(TickOrder) : TickOrder[i] = "selection" /\ Returned(i)
    /\ UNCHANGED sysVars
\* renderer.render(scene, camera)
Render ==
    /\ tick.pc = "render"
    /\ \E i \in 1..Len(TickOrder) : TickOrder[i] = "render" /\ Returned(i)
    /\ UNCHANGED <<htVars, imVars, sysVars>>

\* Spawns and their delayed callbacks within one session, and teardown.
PulseNext ==
    \/ XRSessionStart(MaxSessions)
    \/ SetupSteps
    \/ Update /\ UNCHANGED <<tick, sysVars>>
    \/ Select(MaxSpawn)
    \/ PulseTimeout
    \/ Dispose

\* The selection controller across sessions: objects are placed in a session,
\* hovered and selected after it, and a later session is entered with them.
ImmersiveNext ==
    \/ XRSessionStart(MaxSessions + 1)
    \/ XRSessionEnd
    \/ ObjectPlaced(MaxObjects)
    \/ \E ev \in PointerEvents : PointerMove(ev)
    \/ Click
    \/ IMUpdate /\ UNCHANGED <<tick, sysVars>>

\* Event handlers and continuations run between ticks only.
\* The pointer rests at the centre of the canvas between ticks.
CentreEvents == {ev \in PointerEvents : Normalized(ev) = [x |-> 0, y |-> 0]}
FrameNext ==
    \/ Idle /\ XRSessionStart(MaxSessions)
    \/ Idle /\ SetupSteps
    \/ Idle /\ XRSessionEnd
    \/ Idle /\ Select(MaxTeardownSpawn)
    \/ Idle /\ (\E ev \in CentreEvents : PointerMove(ev))
    \/ Idle /\ Click
    \/ BeginTick
    \/ TrackerUpdate
    \/ SelectionUpdate
    \/ Render


(***************************************************************************)
(* HitTestSystem (src/MRroom/src/systems/HitTestSystem.ts), the Surface    *)
(* Tracker of the entity-based app. hts holds its fields, the session the  *)
(* renderer presents to it, where each handleSessionStart is suspended,    *)
(* the sources created for it and the values it published to the store.    *)
(***************************************************************************)
HitTestNotSupported == "Hit test not supported"
\* A system the world has not registered yet.
NotRegistered == [registered |-> FALSE]
\* init(): the reticle is created hidden; nothing is published yet.
NewHitTestSystem ==
          [registered |-> TRUE, session |-> 0, nSessions |-> 0, pc |-> <<>>,
           hitTestSource |-> 0, sources |-> <<>>, referenceSpace |-> 0,
           reticle |-> [visible |-> FALSE, position |-> Origin],
           lastHitPosition |-> Origin,
           reticleVisible |-> FALSE, hitTestResults |-> <<>>, error |-> NoError,
           last |-> [op |-> "init", passed |-> FALSE, q |-> NoQuery]]
SysLast(op) == [op |-> op, passed |-> FALSE, q |-> NoQuery]
\* A reference-space request of session s resolves only while s runs.
SysResolutions(s) == IF hts.session = s THEN {TRUE, FALSE} ELSE {FALSE}

\* 'sessionstart' of the renderer: handleSessionStart up to its first await.
\* The event may carry no session; renderer.xr.getReferenceSpace() may
\* already have a space, and then setupHitTestSource is entered at once.
SysSessionStart(maxSessions) ==
    /\ hts.registered
    /\ hts.session = 0
    /\ hts.nSessions < maxSessions
    /\ \E hasSession \in BOOLEAN : \E hasSpace \in BOOLEAN :
         LET s == hts.nSessions + 1 IN
         hts' = [hts EXCEPT
                   !.session = s,
                   !.nSessions = s,
                   !.pc = Append(@, IF ~hasSession THEN "done"
                                    ELSE IF hasSpace THEN "viewer" ELSE "refspace"),
                   !.referenceSpace = IF hasSession /\ hasSpace THEN s ELSE @,
                   !.last = SysLast("sessionstart")]
    /\ UNCHANGED <<htVars, imVars, tick, isys, xrs>>

\* Lines 33-40: the local-floor request settled; setupHitTestSource is
\* entered and suspends at its request of the viewer space.
SysResumeReferenceSpace(s) ==
    /\ hts.registered
    /\ hts.pc[s] = "refspace"
    /\ \E ok \in SysResolutions(s) :
         hts' = [hts EXCEPT !.referenceSpace = IF ok THEN s ELSE 0,
                            !.pc[s] = "viewer",
                            !.last = SysLast("setup")]
    /\ UNCHANGED <<htVars, imVars, tick, isys, xrs>>

\* Line 91: the source the request resolved with is stored.
SysStoreSource(h, s) ==
    [h EXCEPT !.sources = Append(@, [session |-> s, cancels |-> 0]),
              !.hitTestSource = Len(h.sources) + 1]
\* Lines 96-99: the catch block of setupHitTestSource.
SysSetupCatch(h) == [h EXCEPT !.error = HitTestNotSupported]

\* Line 90: the viewer-space request settled.
SysResumeViewerSpace(s) ==
    /\ hts.registered
    /\ hts.pc[s] = "viewer"
    /\ \E ok \in SysResolutions(s) :
         hts' = [(IF ok THEN hts ELSE SysSetupCatch(hts)) EXCEPT
                    !.pc[s] = IF ok THEN "source" ELSE "done",
                    !.last = SysLast("setup")]
    /\ UNCHANGED <<htVars, imVars, tick, isys, xrs>>

\* Lines 91-95: the hit-test-source request settled.
SysResumeHitTestSource(s) ==
    /\ hts.registered
    /\ hts.pc[s] = "source"
    /\ \E ok \in SourceResolutions(s, hts.session, hts.nSessions) :
         hts' = [(IF ok THEN SysStoreSource(hts, s) ELSE SysSetupCatch(hts)) EXCEPT
                    !.pc[s] = "done",
                    !.last = SysLast("setup")]
    /\ UNCHANGED <<htVars, imVars, tick, isys, xrs>>

SysSetupSteps ==
    /\ hts.registered
    /\ \E s \in 1..Len(hts.pc) :
          \/ SysResumeReferenceSpace(s)
          \/ SysResumeViewerSpace(s)
          \/ SysResumeHitTestSource(s)

\* Lines 106-121: cleanupHitTestSource.
CleanupHitTestSource(h) ==
    [h EXCEPT !.sources = Cancel(@, h.hitTestSource),
              !.hitTestSource = 0,
              !.reticle.visible = FALSE,
              !.reticleVisible = FALSE]
\* 'sessionend' of the renderer: handleSessionEnd (lines 46-49).
SysSessionEnd ==
    /\ hts.registered
    /\ hts.session # 0
    /\ hts' = [CleanupHitTestSource(hts) EXCEPT
                  !.referenceSpace = 0,
                  !.session = 0,
                  !.last = SysLast("sessionend")]
    /\ UNCHANGED <<htVars, imVars, tick, isys, xrs>>

\* What querying the held source can do in a frame of the running session.
SysOutcomesOf(h) ==
    IF h.sources[h.hitTestSource].session = h.session THEN Outcomes ELSE StaleOutcomes
\* (mutant) the no-hit branch without the publication.
SysHideUnpublished(h) == [h EXCEPT !.reticle.visible = FALSE]
\* Lines 168-172: no hit result.
SysHide(h) == [h EXCEPT !.reticle.visible = FALSE, !.reticleVisible = FALSE]
\* Lines 146-167: the first result's pose resolved.
SysShow(h, results) ==
    [h EXCEPT !.reticle = [visible |-> TRUE, position |-> results[1]],
              !.lastHitPosition = results[1],
              !.hitTestResults = results,
              !.reticleVisible = TRUE]
\* Lines 140-175, on what the query did.
SysApplyPoll(h, q) ==
    IF q.q = "throw" THEN h
    ELSE IF Len(q.res) = 0 THEN SysHide(h)
    ELSE IF q.res[1] \in Positions THEN SysShow(h, q.res)
    ELSE h
\* update(): the guards of lines 127-138 and the poll. world.xrFrame is set
\* while a session runs; without this.referenceSpace the renderer's space is
\* used, which may be missing.
SysUpdate ==
    /\ hts.registered
    /\ \E rendererSpace \in BOOLEAN :
         IF \/ hts.hitTestSource = 0
            \/ hts.session = 0
            \/ (hts.referenceSpace = 0 /\ ~rendererSpace)
         THEN hts' = [hts EXCEPT !.last = SysLast("update")]
         ELSE \E q \in SysOutcomesOf(hts) :
                hts' = [SysApplyPoll(hts, q) EXCEPT
                          !.last = [op |-> "update", passed |-> TRUE, q |-> q]]
    /\ UNCHANGED <<htVars, imVars, tick, isys, xrs>>

(***************************************************************************)
(* InteractionSystem (src/MRroom/src/systems/InteractionSystem.ts), the    *)
(* Selection Controller of the entity-based app. Entities carry the        *)
(* Interactive tag; an entity's object3D has one or more mesh parts, each  *)
(* with a standard material. isys holds the parts' materials, the Pressed  *)
(* and OneHandGrabbable components, the system's maps and the selected id  *)
(* it published.                                                           *)
(***************************************************************************)
Entities == 1..MaxEntities
\* The mesh parts object3D.traverse visits: the first entity is a group of
\* two meshes, every other entity a single mesh.
PartsOf(e) == IF e = 1 THEN {<<e, 1>>, <<e, 2>>} ELSE {<<e, 1>>}
Parts == UNION {PartsOf(e) : e \in Entities}
\* Colours a part is created with.
EntityColors == {Black, CubeRed, White}
\* Ids given to an entity; "" is an entity without an id.
EntityNames == {"", "cube"}
NoId == "null"
\* selectObject(null) publishes no id.
NoSelection == <<NoId, 0>>
\* The empty Map.
EmptyMap == [p \in {} |-> 0]
EntityLast(op, e) == [op |-> op, e |-> e]

NewInteractionSystem ==
           [registered |-> TRUE, created |-> {},
            made |-> EmptyMap,
            mat |-> EmptyMap,
            pressed |-> {},
            grabbable |-> {},
            entityIds |-> EmptyMap,
            originalColors |-> EmptyMap,
            selectedObjectId |-> NoSelection,
            last |-> EntityLast("init", 0)]

\* Lines 58, 80: entityIds.get(entity.index) || `object-${entity.index}`.
\* An id is written as <<name, index>>: the app gives each entity its own id.
IdOf(st, e) ==
    <<IF e \in DOMAIN st.entityIds /\ st.entityIds[e] # "" THEN st.entityIds[e]
      ELSE "object", e>>

\* The app creates the next entity with its meshes, tags it Interactive and
\* may give it an id.
CreateEntity ==
    /\ isys.registered
    /\ \E e \in Entities \ isys.created :
         /\ \A d \in Entities : d < e => d \in isys.created
         /\ \E cols \in [PartsOf(e) -> EntityColors] : \E name \in EntityNames :
              isys' = [isys EXCEPT
                 !.created = @ \cup {e},
                 !.made = cols @@ @,
                 !.mat = [p \in PartsOf(e) |->
                            [color |-> cols[p], emissive |-> Black,
                             emissiveIntensity |-> 0]] @@ @,
                 !.entityIds = IF name # "" THEN (e :> name) @@ @ ELSE @,
                 !.last = EntityLast("create", e)]
    /\ UNCHANGED <<htVars, imVars, tick, hts, xrs>>

\* Line 121: child.material.color?.getHex() || 0xffffff.
RecordedColor(c) == IF c # 0 THEN c ELSE White
\* Lines 126-127: color || this.highlightColors.get(entity.index) || 0x00ff00;
\* no highlight colour is ever registered.
HighlightColorOf(color) == IF color # 0 THEN color ELSE DefaultHighlight
\* Lines 116-134, for one part.
HighlightPart(st, p, color) ==
    [st EXCEPT
       !.originalColors = IF p \in DOMAIN @ THEN @
                          ELSE (p :> RecordedColor(st.mat[p].color)) @@ @,
       !.mat[p] = [color |-> HighlightColorOf(color),
                   emissive |-> HighlightColorOf(color),
                   emissiveIntensity |-> HighlightIntensity]]
\* Lines 135-145, for one part.
UnhighlightPart(st, p) ==
    [st EXCEPT
       !.mat[p] = [color |-> IF p \in DOMAIN st.originalColors
                             THEN st.originalColors[p] ELSE @.color,
                   emissive |-> Black,
                   emissiveIntensity |-> 0]]
\* highlightObject (lines 106-148): the traversal of the entity's parts.
RECURSIVE TraverseParts(_, _, _, _)
TraverseParts(st, ps, highlight, color) ==
    IF ps = {} THEN st
    ELSE LET p == CHOOSE x \in ps : TRUE IN
         TraverseParts(IF highlight THEN HighlightPart(st, p, color)
                       ELSE UnhighlightPart(st, p),
                       ps \ {p}, highlight, color)
HighlightEntity(st, e, highlight, color) == TraverseParts(st, PartsOf(e), highlight, color)

\* Line 85: selectObject(null).
ClearedSelection(st, e) == NoSelection

\* The entity gets the Pressed component: the clicked query qualifies it and
\* handleClick runs (lines 57-74).
Press(e) ==
    /\ isys.registered
    /\ e \in isys.created
    /\ e \notin isys.pressed
    /\ isys' = [HighlightEntity(isys, e, TRUE, 0) EXCEPT
                  !.pressed = @ \cup {e},
                  !.selectedObjectId = IdOf(isys, e),
                  !.last = EntityLast("press", e)]
    /\ UNCHANGED <<htVars, imVars, tick, hts, xrs>>
\* The Pressed component is removed: the clicked query disqualifies the
\* entity and handleClickRelease runs (lines 79-89).
Release(e) ==
    /\ isys.registered
    /\ e \in isys.pressed
    /\ isys' = [HighlightEntity(isys, e, FALSE, 0) EXCEPT
                  !.pressed = @ \ {e},
                  !.selectedObjectId = ClearedSelection(isys, e),
                  !.last = EntityLast("release", e)]
    /\ UNCHANGED <<htVars, imVars, tick, hts, xrs>>
\* setInteractive(index, true) adds OneHandGrabbable: the grabbed query
\* qualifies the entity and handleGrab runs (lines 94-101).
Grab(e) ==
    /\ isys.registered
    /\ e \in isys.created
    /\ e \notin isys.grabbable
    /\ isys' = [HighlightEntity(isys, e, TRUE, GrabHighlight) EXCEPT
                  !.grabbable = @ \cup {e},
                  !.last = EntityLast("grab", e)]
    /\ UNCHANGED <<htVars, imVars, tick, hts, xrs>>

(***************************************************************************)
(* The XR store (src/MRroom/src/stores/xrStore.ts): enterXR and exitXR.    *)
(* xrs.pending holds the calls suspended at their await.                   *)
(***************************************************************************)
NonImmersive == "non-immersive"
ImmersiveVR == "immersive-vr"
WorldNotInitialized == "World not initialized"
FailedToEnter == "Failed to enter XR"
FailedToExit == "Failed to exit XR"
\* What world.launchXR() / world.exitXR() can do: resolve, or reject with an
\* Error (its message) or with a value that is no Error.
Settlements == {"resolved", "NotAllowedError", "not-an-error"}
XRLast(op, kind, how) == [op |-> op, kind |-> kind, how |-> how]
SysStoreInit ==
    xrs = [world |-> FALSE, xrState |-> NonImmersive, isLoading |-> FALSE,
           error |-> NoError, pending |-> {}, nCalls |-> 0,
           last |-> XRLast("init", "none", "none")]

\* World.create resolved (App.tsx lines 62-101): the systems are registered,
\* which runs their init(), and setWorld(newWorld) stores the world.
WorldCreated ==
    /\ ~xrs.world
    /\ hts' = NewHitTestSystem
    /\ isys' = NewInteractionSystem
    /\ xrs' = [xrs EXCEPT !.world = TRUE, !.last = XRLast("setWorld", "none", "none")]
    /\ UNCHANGED <<htVars, imVars, tick>>
\* A call of enterXR() (kind "enter") or exitXR() (kind "exit") up to its
\* await: lines 98-106 and 119-125.
CallXR(kind) ==
    /\ xrs.nCalls < MaxCalls
    /\ IF ~xrs.world
       THEN xrs' = [xrs EXCEPT
                      !.error = IF kind = "enter" THEN WorldNotInitialized ELSE @,
                      !.nCalls = @ + 1,
                      !.last = XRLast("noworld", kind, "none")]
       ELSE xrs' = [xrs EXCEPT
                      !.isLoading = TRUE,
                      !.error = NoError,
                      !.nCalls = @ + 1,
                      !.pending = @ \cup {[id |-> xrs.nCalls + 1, kind |-> kind]},
                      !.last = XRLast("call", kind, "none")]
    /\ UNCHANGED <<htVars, imVars, tick, hts, isys>>
\* (mutant) a catch block that records the error and leaves isLoading.
CaughtKeepingLoading(st, kind, how) ==
    [st EXCEPT !.error = IF how = "not-an-error"
                         THEN (IF kind = "enter" THEN FailedToEnter ELSE FailedToExit)
                         ELSE how]
\* Lines 108-114 and 127-133: the catch blocks.
Caught(st, kind, how) ==
    [st EXCEPT !.error = IF how = "not-an-error"
                         THEN (IF kind = "enter" THEN FailedToEnter ELSE FailedToExit)
                         ELSE how,
               !.isLoading = FALSE]
\* Lines 107 and 126: the launch or the exit resolved.
Completed(st, kind) ==
    [st EXCEPT !.xrState = IF kind = "enter" THEN ImmersiveVR ELSE NonImmersive,
               !.isLoading = FALSE]
\* The promise a pending call awaits settles and the call runs to its end.
Settle(c) ==
    /\ c \in xrs.pending
    /\ \E how \in Settlements :
         xrs' = [(IF how = "resolved" THEN Completed(xrs, c.kind)
                  ELSE Caught(xrs, c.kind, how)) EXCEPT
                   !.pending = @ \ {c},
                   !.last = XRLast("settle", c.kind, how)]
    /\ UNCHANGED <<htVars, imVars, tick, hts, isys>>
SettleSome == \E c \in xrs.pending : Settle(c)

\* The entity-based app: its Surface Tracker across sessions.
SystemNext ==
    \/ WorldCreated
    \/ SysSessionStart(MaxSysSessions)
    \/ SysSetupSteps
    \/ SysSessionEnd
    \/ SysUpdate
\* Its Selection Controller.
EntityNext ==
    \/ WorldCreated
    \/ CreateEntity
    \/ \E e \in Entities : Press(e)
    \/ \E e \in Entities : Release(e)
    \/ \E e \in Entities : Grab(e)
\* Its store's XR calls.
StoreNext ==
    \/ WorldCreated
    \/ CallXR("enter")
    \/ CallXR("exit")
    \/ SettleSome

\* The app constructs both managers on mount; the entity-based app has its
\* store and no system before its world is created.
SysInit == hts = NotRegistered /\ isys = NotRegistered /\ SysStoreInit
Init == HTInit /\ IMInit /\ LoopInit /\ SysInit

PollSpec == Init /\ [][PollNext]_vars
SpawnSpec == Init /\ [][SpawnNext]_vars
\* The host fires every setTimeout callback that is due.
PulseSpec == Init /\ [][PulseNext]_vars /\ WF_vars(PulseTimeout)
TeardownSpec == Init /\ [][TeardownNext]_vars
ReentrySpec == Init /\ [][ReentryNext]_vars
IMSpec == Init /\ [][IMNext]_vars
ImmersiveSpec == Init /\ [][ImmersiveNext]_vars
FrameSpec == Init /\ [][FrameNext]_vars
SystemSpec == Init /\ [][SystemNext]_vars
EntitySpec == Init /\ [][EntityNext]_vars
\* Every promise of world.launchXR() and world.exitXR() settles.
StoreSpec == Init /\ [][StoreNext]_vars /\ WF_vars(SettleSome)

(***************************************************************************)
(* Properties of the per-frame poll (PollSpec).                            *)
(***************************************************************************)
\* The list of the source chosen in the poll recorded in l: the hand
\* source's when it returned at least one result, otherwise the gaze source's.
ChosenResults(l) ==
    IF l.hand.q = "ok" /\ Len(l.hand.res) > 0 THEN l.hand.res ELSE l.gaze.res
\* The chosen source returned a result and its first pose resolved.
PoseResolved(l) ==
    Len(ChosenResults(l)) > 0 /\ ChosenResults(l)[1] \in Positions
\* Nothing threw in the poll recorded in l.
NothingThrew(l) ==
    /\ l.hand.q # "throw"
    /\ l.gaze.q # "throw"
    /\ (Len(ChosenResults(l)) > 0 => ChosenResults(l)[1] # PoseThrows)
AfterPoll == last.op = "update" /\ last.passed

\* C1: after every update(frame) that passes the guard (and in which nothing
\* throws), the reticle is visible iff the chosen source returned a result
\* whose pose resolved; otherwise the reticle is not visible and
\* reticle-visible=false is published.
C1_VisibleIffPoseResolved ==
    (AfterPoll /\ NothingThrew(last)) =>
        /\ reticle.visible <=> PoseResolved(last)
        /\ ~PoseResolved(last) => (~reticle.visible /\ ~store.reticleVisible)

\* C2: in an update in which the hand source is held and returns at least one
\* result, the gaze source is not queried and the reticle pose, lastHitPosition
\* and the published list written in that frame are the hand source's; the gaze
\* source is queried only when the hand source is absent or returned nothing.
C2_HandOverGaze ==
    AfterPoll =>
        /\ (last.hand.q = "ok" /\ Len(last.hand.res) > 0) =>
              /\ last.gaze.q = "no"
              /\ last.hand.res[1] \in Positions =>
                    /\ reticle.matrix = last.hand.res[1]
                    /\ lastHitPosition = last.hand.res[1]
                    /\ store.hitTestResults = last.hand.res
        /\ last.gaze.q # "no" =>
              (last.hand.q = "no" \/ (last.hand.q = "ok" /\ Len(last.hand.res) = 0))
\* C2 witness: a poll with both sources held in which the hand source's first
\* result placed the reticle.
C2_Witness ==
    /\ AfterPoll
    /\ hitTestSource # 0
    /\ last.hand.q = "ok"
    /\ Len(last.hand.res) > 1
    /\ reticle.visible
    /\ reticle.matrix = last.hand.res[1]

(***************************************************************************)
(* Properties of select events and spawns (SpawnSpec).                     *)
(***************************************************************************)
\* C3: a select event delivered while the reticle is not visible, or after it
\* has been released, changes nothing: no placed object, no change of the
\* placed-objects list, of the scene or of the spawn counter.
C3_GatedSelectIsNoOp ==
    [][(last'.op = "select" /\ ~(reticleHeld /\ reticle.visible)) =>
          UNCHANGED <<htFields, htEnv, sceneObjects, store, imVars>>]_vars
\* C3 witness: a select event was delivered, after earlier spawns, while the
\* reticle was held and not visible.
C3_Witness ==
    /\ last.op = "select"
    /\ reticleHeld
    /\ ~reticle.visible
    /\ objectCounter > 0

ReadmeKind(n) ==
    IF n % 3 = 1 THEN "cube" ELSE IF n % 3 = 2 THEN "sphere" ELSE "elongated box"
\* C5: the first successful tap places the red cube, the second the green
\* sphere, the third the blue 'cylinder', and the sequence repeats.
C5_ReadmeRotation ==
    \A i \in 1..Len(placedObjects) :
        /\ placedObjects[i].shape = ReadmeKind(i)
        /\ material[placedObjects[i].id].color =
              (IF i % 3 = 1 THEN CubeRed ELSE IF i % 3 = 2 THEN SphereGreen ELSE BoxBlue)


(***************************************************************************)
(* Properties of hover and selection highlights (IMSpec).                  *)
(***************************************************************************)
\* The material a highlight of the given colour leaves on a mesh.
Highlighted(color) == [color |-> color, emissive |-> color, emissiveIntensity |-> 3]
\* The colour mesh o had before it was first highlighted.
OriginalColor(o) == NewMaterial(o).color
\* A click handled outside an immersive session whose raycast hit object o.
ClickOn(o) == Click /\ ~IsPresenting /\ imLast'.pick = o
\* The manager has not been disposed: its history consists of pointer moves,
\* clicks and updates only.
NotDisposed == bindCount = 2

\* C6: whatever hovers and selections came before, a non-immersive click on
\* the object X that a click selected deselects it: nothing is selected, null
\* is published as the selected id, and X's material has the colour it had
\* before it was first highlighted, black emissive and emissive intensity 0.
C6_ClickRoundTrip ==
    [][\A o \in InteractiveObjects :
          (NotDisposed /\ selectedObject = o /\ ClickOn(o)) =>
              /\ selectedObject' = 0
              /\ store'.selectedObjectId = 0
              /\ material'[o] = [color |-> OriginalColor(o), emissive |-> Black,
                                 emissiveIntensity |-> 0]]_vars
\* C6 witness: the second click on object 2 has deselected it while it was
\* hovered, after hover and selection had both highlighted it.
C6_Witness ==
    /\ NotDisposed
    /\ imLast = IMLast("click", 2)
    /\ selectedObject = 0
    /\ hoveredObject = 2
    /\ 2 \in DOMAIN originalColors
    /\ material[2].color = OriginalColor(2)
    /\ material[2].emissiveIntensity = 0

\* C7: whenever A is the hovered object and a click selects a different object
\* B, immediately afterwards A carries the hover highlight (green), B carries
\* the selection highlight (magenta), A is still the hovered object and B is
\* the selected one.
C7_BothHighlightsActive ==
    [][\A a, b \in InteractiveObjects :
          (NotDisposed /\ hoveredObject = a /\ a # b /\ selectedObject # b /\ ClickOn(b)) =>
              /\ material'[a] = Highlighted(HoverColor)
              /\ material'[b] = Highlighted(SelectColor)
              /\ hoveredObject' = a
              /\ selectedObject' = b]_vars

\* C8: with A hovered and B selected (A # B, each carrying its highlight), an
\* update whose raycast no longer hits A (it hits nothing, or another object,
\* B included) leaves B selected with the selection highlight; only A's
\* highlight is removed.
C8_HoverEndKeepsSelection ==
    [][\A a, b \in InteractiveObjects :
          (/\ NotDisposed
           /\ hoveredObject = a /\ selectedObject = b /\ a # b
           /\ material[a] = Highlighted(HoverColor)
           /\ material[b] = Highlighted(SelectColor)
           /\ IMUpdate /\ ~IsPresenting /\ imLast'.pick # a) =>
              /\ selectedObject' = b
              /\ material'[b] = Highlighted(SelectColor)
              /\ material'[a].emissiveIntensity = 0]_vars

(***************************************************************************)
(* Properties of teardown.                                                 *)
(***************************************************************************)
\* C10: after InteractionManager.dispose() the canvas holds none of the
\* manager's pointermove and click listeners, so no later pointer event
\* changes the manager's pointer, hover, selection or ledger, the materials or
\* the store; a second dispose() leaves the canvas without listeners too.
C10_DisposeDetachesPointerListeners ==
    [][/\ imLast'.op = "dispose" => canvasListeners' = {}
       /\ (~NotDisposed /\ ((\E ev \in PointerEvents : PointerMove(ev)) \/ Click)) =>
             UNCHANGED <<pointer, hoveredObject, selectedObject, originalColors,
                         material, store>>]_vars

\* No onSessionStart and no setupRightHandHitTest is suspended at an await.
NoSetupInFlight ==
    /\ \A s \in 1..Len(setupPc) : setupPc[s] = "done"
    /\ handReqs = {}
\* The lifecycle listeners that can still be invoked: those registered on the
\* session that is running.
LiveLifecycleListeners(ls, running) ==
    {l \in ls : l.type \in {"end", "inputsourceschange"} /\ l.sess = running /\ running # 0}
\* A dispose() call made with no setup in flight.
DisposeStep == last'.op = "dispose" /\ NoSetupInFlight

Disposed == ~reticleHeld
\* A continuation of onSessionStart or of setupRightHandHitTest runs.
SetupCompletes == last'.op \in {"setup", "righthand"}

\* C11: when dispose() ran while onSessionStart or setupRightHandHitTest was
\* suspended, the continuation that runs afterwards discards its result: it
\* stores no hit-test source and registers no session listener, so that after
\* teardown the manager holds no source and the running session carries none
\* of its lifecycle listeners.
C11_LateResultDiscarded ==
    [][(Disposed /\ SetupCompletes) =>
          /\ hitTestSource' = 0
          /\ rightHandHitTestSource' = 0
          /\ sessListeners' = sessListeners
          /\ LiveLifecycleListeners(sessListeners', xrSession') = {}]_vars


\* The hit-test sources created for a hand device and not cancelled.
LiveHandSources == {i \in 1..Len(sources) : sources[i].kind = "hand" /\ sources[i].cancels = 0}

\* C12: in every reachable state at most one hit-test source created for a
\* right-hand device is live (created and not yet cancelled), whatever the
\* interleaving of device events and request completions.
C12_OneLiveHandSource == Cardinality(LiveHandSources) <= 1


\* C13: once a right-hand device was reported removed and while no other
\* right-hand device is connected, the manager (not disposed, its
\* inputsourceschange listener on the running session) holds no hand source, so
\* every poll uses the gaze source only; also when the removal arrived while
\* the source request for that device was pending.
C13_NoHandSourceAfterRemoval ==
    (reticleHeld /\ Listening("inputsourceschange") /\ RightHands(connected) = {}) =>
        rightHandHitTestSource = 0


(***************************************************************************)
(* Properties of frames that throw and of frames without results.          *)
(***************************************************************************)
\* C15: a frame in which getHitTestResults or getPose throws is treated as
\* 'no hit this frame': after that update() the reticle is not visible and
\* reticle-visible=false is published, whatever the reticle's visibility was
\* before the frame.
C15_ThrowHidesReticle ==
    (AfterPoll /\ ~NothingThrew(last)) => (~reticle.visible /\ ~store.reticleVisible)

\* Every source held in the poll recorded in l returned zero results.
ZeroResults(l) ==
    /\ l.hand.q # "throw" /\ Len(l.hand.res) = 0
    /\ l.gaze.q # "throw" /\ Len(l.gaze.res) = 0
\* C16: a frame whose gaze poll (no hand source answering) yields a hit with a
\* resolvable pose makes the reticle visible at that pose in that frame, and a
\* frame in which all held sources return zero results leaves the reticle not
\* visible and publishes reticle-visible=false.
C16_GazeHitShowsZeroHides ==
    AfterPoll =>
        /\ (Len(last.hand.res) = 0 /\ last.gaze.q = "ok" /\ Len(last.gaze.res) > 0
              /\ last.gaze.res[1] \in Positions) =>
              /\ reticle.visible
              /\ reticle.matrix = last.gaze.res[1]
              /\ store.reticleVisible
        /\ ZeroResults(last) => (~reticle.visible /\ ~store.reticleVisible)
\* C16 witness: after an earlier frame showed the reticle at a gaze hit, a
\* frame in which the gaze source returned zero results has hidden it.
C16_Witness ==
    /\ AfterPoll
    /\ lastHitPosition \in Positions
    /\ last.gaze.q = "ok"
    /\ ZeroResults(last)
    /\ ~reticle.visible
    /\ ~store.reticleVisible


(***************************************************************************)
(* Properties of spawn bookkeeping (SpawnSpec).                            *)
(***************************************************************************)
\* C17: every select event delivered while the reticle is visible adds exactly
\* one object and one to the counter; the object is flagged interactive, is in
\* the scene and last in the placed-objects list, and sits at lastHitPosition
\* raised by the nudge, where lastHitPosition is the pose of the most recent
\* successful poll (only such a poll writes it); the counter never decreases,
\* and until a dispose the list holds exactly counter objects, all in the scene.
C17_SpawnBookkeeping ==
    [][/\ objectCounter' >= objectCounter
       /\ lastHitPosition' # lastHitPosition =>
             /\ last'.op = "update"
             /\ PoseResolved(last')
             /\ lastHitPosition' = ChosenResults(last')[1]
       /\ (last'.op = "select" /\ reticleHeld /\ reticle.visible) =>
             /\ objectCounter' = objectCounter + 1
             /\ Len(placedObjects') = Len(placedObjects) + 1
             /\ SubSeq(placedObjects', 1, Len(placedObjects)) = placedObjects
             /\ LET m == placedObjects'[Len(placedObjects')] IN
                   /\ m.id = objectCounter'
                   /\ m.pos = lastHitPosition
                   /\ m.lift = Nudge
                   /\ m.interactive
                   /\ m.id \in sceneObjects'
       /\ reticleHeld' =>
             /\ Len(placedObjects') = objectCounter'
             /\ \A i \in 1..Len(placedObjects') : placedObjects'[i].id \in sceneObjects']_vars
\* C17 witness: two spawns, the second placed by the select event just
\* delivered at a hit position polled after the first spawn.
C17_Witness ==
    /\ last.op = "select"
    /\ reticleHeld
    /\ objectCounter = 2
    /\ Len(placedObjects) = 2
    /\ placedObjects[1].pos = "p1"
    /\ placedObjects[2].pos = "p2"
    /\ placedObjects[2].pos = lastHitPosition
    /\ {1, 2} \subseteq sceneObjects


(***************************************************************************)
(* Properties of a failed setup (ReentrySpec).                             *)
(***************************************************************************)
\* onSessionStart of the running session ended in its catch block: the setup
\* is over and the error it published stands.
SetupFailedInSession ==
    /\ xrSession # 0
    /\ setupPc[xrSession] = "done"
    /\ store.error = SetupFailed

\* C18: when hit-testing is unsupported by the session or a setup request
\* fails, onSessionStart ends by publishing the error, and in every later
\* state of that session the reticle is not visible and no select event
\* creates a placed object.
C18_FailedSetupStaysInert ==
    [][/\ SetupFailedInSession' => ~reticle'.visible
       /\ (SetupFailedInSession /\ last'.op = "select") =>
             /\ placedObjects' = placedObjects
             /\ objectCounter' = objectCounter]_vars


(***************************************************************************)
(* Properties of the reference-space fallback (ReentrySpec).               *)
(***************************************************************************)
\* The reference-space kinds of the fallback chain, in the order of the claim.
SpaceKinds == <<"local-floor", "local", "viewer">>
\* In the setup positions pc, onSessionStart of session s awaits the request
\* of the i-th kind.
AwaitsKind(pc, s, i) == s \in 1..Len(pc) /\ pc[s] = SpaceKinds[i]

\* C19: on session start the reference space is requested floor-relative
\* first; the request that succeeds gives the space used, and the next kind
\* (local, then viewer-relative) is requested only when the current one
\* failed; once resolved for the running session it is not changed while that
\* session lasts.
C19_ReferenceSpaceFallback ==
    [][/\ last'.op = "sessionstart" => AwaitsKind(setupPc', xrSession', 1)
       /\ \A s \in 1..Len(setupPc) : \A i \in 1..3 :
             (AwaitsKind(setupPc, s, i) /\ setupPc'[s] # setupPc[s]) =>
                \/ /\ referenceSpace' = [kind |-> SpaceKinds[i], session |-> s]
                   /\ setupPc'[s] = "viewerSpace"
                \/ /\ referenceSpace' = referenceSpace
                   /\ IF i < 3 THEN AwaitsKind(setupPc', s, i + 1) ELSE setupPc'[s] = "done"
       /\ referenceSpace' # referenceSpace =>
             \E i \in 1..3 : AwaitsKind(setupPc, referenceSpace'.session, i)
       /\ (xrSession # 0 /\ xrSession' = xrSession /\ referenceSpace.session = xrSession) =>
             referenceSpace' = referenceSpace]_vars
\* C19 witness: in the session entered second the floor-relative and the local
\* request failed and the viewer-relative space is the one in use, the setup
\* having gone on to completion.
C19_Witness ==
    /\ xrSession = 2
    /\ referenceSpace = [kind |-> "viewer", session |-> 2]
    /\ setupPc[2] = "done"
    /\ hitTestSource # 0
    /\ sources[hitTestSource].session = 2


(***************************************************************************)
(* The frame driver (FrameSpec).                                           *)
(***************************************************************************)
\* The tick that has just ended made all three calls.
TickCompleted == Idle /\ tick.calls = <<"tracker", "selection", "render">>
\* One of the calls made in the update() recorded in l threw.
FrameThrew(l) == l.op = "update" /\ l.passed /\ ThrowSites(l) # {}

\* C14: update(frame) returns normally for every frame, the frames in which
\* getHitTestResults or getPose throws included: the step of the tick that
\* runs the tracker's update always hands over to the selection update, and a
\* tick is only left after the selection update and the render were called.
C14_UpdateNeverRaises ==
    [][/\ tick.pc = "tracker" =>
            (last'.op = "update" /\ tick'.pc = "selection")
       /\ (tick.pc # "idle" /\ tick'.pc = "idle") =>
            (/\ Len(tick'.calls) = 3
             /\ tick'.calls[2] = "selection"
             /\ tick'.calls[3] = "render")]_vars
\* A tick ran to its end although a call of its tracker update threw.
C14_Witness == TickCompleted /\ FrameThrew(last)

\* What only select, click, pointer-move, input-source and session handlers
\* and the setup continuations change.
HandlerState ==
    <<objectCounter, placedObjects, sceneObjects, selectedObject, pointer,
      connected, rightHandInputSource, rightHandHitTestSource, hitTestSource,
      handReqs, nHandReqs, setupPc, xrSession, sessListeners, canvasListeners,
      pendingPulses>>

\* C20: every tick calls the tracker's update, then the selection update,
\* then the render, once each and in that order; while a tick is between the
\* start of its tracker update and the end of its selection update, the only
\* steps are those two updates: no select, click, pointer-move or
\* input-source handler acts.
C20_TickOrder ==
    [][/\ \A i \in 1..Len(tick'.calls) :
             i <= 3 /\ tick'.calls[i] = <<"tracker", "selection", "render">>[i]
       /\ (tick.pc = "idle" /\ tick'.pc # "idle") =>
             (tick'.pc = "tracker" /\ tick'.calls = <<>>)
       /\ (tick.pc # "idle" /\ tick'.pc = "idle") =>
             tick'.calls = <<"tracker", "selection", "render">>
       /\ tick.pc = "tracker" =>
             (/\ last'.op = "update"
              /\ imLast' = imLast
              /\ tick'.calls = <<"tracker">>
              /\ UNCHANGED HandlerState)
       /\ tick.pc = "selection" =>
             (/\ imLast'.op = "update"
              /\ last' = last
              /\ tick'.calls = <<"tracker", "selection">>
              /\ UNCHANGED HandlerState)]_vars
\* A tick ran to its end in which the tracker update showed the reticle and
\* the selection update ran after it.
C20_Witness ==
    /\ TickCompleted
    /\ AfterPoll /\ NothingThrew(last) /\ reticle.visible
    /\ imLast.op = "update"


(***************************************************************************)
(* The end of a session.                                                   *)
(***************************************************************************)
\* The step is the session's end event handled by handleSessionEnd.
EndHandled == last'.op = "sessionend" /\ Listening("end")
\* The hit-test sources created in session s and not cancelled.
LiveSourcesOf(srcs, s) ==
    {i \in 1..Len(srcs) : srcs[i].session = s /\ srcs[i].cancels = 0}

\* C21: once handleSessionEnd has handled the session's end event, the manager
\* holds neither the gaze source nor a hand source and every source of that
\* session has been cancelled, so that no later update() can poll a source of
\* the ended session.
C21_EndReleasesSources ==
    [][EndHandled =>
          /\ hitTestSource' = 0
          /\ rightHandHitTestSource' = 0
          /\ LiveSourcesOf(sources', xrSession) = {}]_vars


(***************************************************************************)
(* The hover and selection state machines (IMSpec).                        *)
(***************************************************************************)
\* The material unhighlightObject leaves on mesh o of a manager not disposed.
Unhighlighted(o) == [color |-> OriginalColor(o), emissive |-> Black, emissiveIntensity |-> 0]
\* An update() of a manager not disposed, outside an immersive session.
HoverUpdate == NotDisposed /\ ~IsPresenting /\ IMUpdate

\* C22: after every update() outside an immersive session the hovered object
\* is the picked object (none when nothing is picked) and the published
\* hovered id is its identity; when the pick moves from X to another object Y,
\* X is unhighlighted and Y carries the hover colour; when the pick moves from
\* X to nothing, X is unhighlighted; when the pick is the hovered object,
\* nothing is published and no material changes.
C22_HoverFollowsPick ==
    [][HoverUpdate =>
          /\ hoveredObject' = imLast'.pick
          /\ store'.hoveredObjectId = imLast'.pick
          /\ (imLast'.pick # 0 /\ imLast'.pick # hoveredObject) =>
                material'[imLast'.pick] = Highlighted(HoverColor)
          /\ (hoveredObject # 0 /\ imLast'.pick # hoveredObject) =>
                material'[hoveredObject] = Unhighlighted(hoveredObject)
          /\ imLast'.pick = hoveredObject =>
                UNCHANGED <<store, material, originalColors>>]_vars
\* The hover has moved from object 1 to object 2 within one update.
C22_Witness ==
    /\ NotDisposed
    /\ imLast = IMLast("update", 2)
    /\ hoveredObject = 2
    /\ store.hoveredObjectId = 2
    /\ material[2] = Highlighted(HoverColor)
    /\ 1 \in DOMAIN originalColors
    /\ selectedObject = 0
    /\ material[1] = Unhighlighted(1)


\* A click handled outside an immersive session by a manager not disposed.
SelectionClick == NotDisposed /\ ~IsPresenting /\ Click
\* The meshes that carry the selection highlight.
SelectionHighlighted(mat) == {o \in DOMAIN mat : mat[o] = Highlighted(SelectColor)}

\* C23: a non-immersive click that picks the selected object X leaves nothing
\* selected; one that picks an object X not selected leaves X selected with
\* the selection highlight and the object selected before unhighlighted; one
\* that picks nothing leaves nothing selected; each time the published
\* selected id is the identity of the resulting selection (or none); and no
\* object other than the selected one carries the selection highlight.
C23_ClickStateMachine ==
    [][/\ SelectionClick =>
             /\ (imLast'.pick # 0 /\ imLast'.pick = selectedObject) =>
                   selectedObject' = 0
             /\ (imLast'.pick # 0 /\ imLast'.pick # selectedObject) =>
                   /\ selectedObject' = imLast'.pick
                   /\ material'[imLast'.pick] = Highlighted(SelectColor)
                   /\ selectedObject # 0 =>
                         material'[selectedObject] = Unhighlighted(selectedObject)
             /\ imLast'.pick = 0 => selectedObject' = 0
             /\ store'.selectedObjectId = selectedObject'
       /\ bindCount' = 2 => SelectionHighlighted(material') \subseteq {selectedObject'}]_vars
\* A click on object 2 has moved the selection from object 1 to object 2.
C23_Witness ==
    /\ NotDisposed
    /\ imLast = IMLast("click", 2)
    /\ selectedObject = 2
    /\ store.selectedObjectId = 2
    /\ material[2] = Highlighted(SelectColor)
    /\ 1 \in DOMAIN originalColors
    /\ material[1] = Unhighlighted(1)
    /\ hoveredObject = 0


C25_LedgerKeepsFirstColour ==
    [][bindCount' = 2 =>
          /\ \A o \in DOMAIN originalColors' : originalColors'[o] = OriginalColor(o)
          /\ \A o \in DOMAIN originalColors :
                o \in DOMAIN originalColors' /\ originalColors'[o] = originalColors[o]]_vars
\* Object 2 went through a selection pass and a hover pass: it is selected and
\* hovered, its material is highlighted, its entry is its first colour.
C25_Witness ==
    /\ NotDisposed
    /\ selectedObject = 2
    /\ hoveredObject = 2
    /\ material[2].color # OriginalColor(2)
    /\ 2 \in DOMAIN originalColors
    /\ originalColors[2] = OriginalColor(2)


(***************************************************************************)
(* The selection controller during an immersive session (ImmersiveSpec).   *)
(***************************************************************************)
\* The step is one of the manager's pointer-move, click or update handlers.
IMHandlerStep == (\E ev \in PointerEvents : PointerMove(ev)) \/ Click \/ IMUpdate

\* C26: while a session is presented, the pointer-move handler, the click
\* handler and update() change nothing: the pointer, the hovered and the
\* selected object, the ledger, every material and the published hovered and
\* selected ids are as before.
C26_ImmersiveHandlersAreNoOps ==
    [][(xrSession # 0 /\ IMHandlerStep) =>
          UNCHANGED <<pointer, hoveredObject, selectedObject, originalColors,
                      material, store>>]_vars
\* A session is presented with object 1 hovered and selected from before, and
\* the update() that ran last picked nothing and left the hover in place.
C26_Witness ==
    /\ xrSession # 0
    /\ imLast = IMLast("update", 0)
    /\ hoveredObject = 1
    /\ selectedObject = 1
    /\ material[1] = Highlighted(HoverColor)
    /\ pointer # [x |-> 0, y |-> 0]


\* The ids of the placed meshes that carry the interactive flag.
FlaggedNodes(placed) == {placed[i].id : i \in {j \in 1..Len(placed) : placed[j].interactive}}

\* C27: the hovered and the selected object are each none or a node that
\* carries the interactive flag; the ledger has entries for flagged nodes only;
\* and no pointer-move, click or update of the manager changes the reticle,
\* which is a child of the scene without the flag.
C27_OnlyFlaggedNodes ==
    [][/\ hoveredObject' \in {0} \cup FlaggedNodes(placedObjects')
       /\ selectedObject' \in {0} \cup FlaggedNodes(placedObjects')
       /\ DOMAIN originalColors' \subseteq FlaggedNodes(placedObjects')
       /\ IMHandlerStep => reticle' = reticle]_vars
\* With the reticle among the scene's children, object 1 is hovered and
\* object 2 is selected.
C27_Witness ==
    /\ [id |-> ReticleNode, interactive |-> FALSE] \in SceneChildren
    /\ hoveredObject = 1
    /\ selectedObject = 2
    /\ material[2] = Highlighted(SelectColor)
    /\ xrSession = 0


(***************************************************************************)
(* Polls that do not pass the guard of update().                           *)
(***************************************************************************)
\* update(frame) is called without a frame (no session is presented), without
\* an established reference space, or after the reticle was released.
PreconditionFails == xrSession = 0 \/ referenceSpace.kind = "null" \/ ~reticleHeld

\* C28: an update(frame) called without a frame, without a reference space or
\* after the reticle was released changes neither the reticle (visibility,
\* pose) nor lastHitPosition nor the published reticle-visible and
\* hit-test-results values, and queries no hit-test source.
C28_GuardedUpdateIsNoOp ==
    [][(PreconditionFails /\ Update) =>
          /\ UNCHANGED <<reticle, lastHitPosition, store>>
          /\ last'.hand = NoQuery
          /\ last'.gaze = NoQuery]_vars
\* update(frame) ran during a session after the reticle was released, while
\* the manager held a gaze source and a reference space.
C28_Witness ==
    /\ last.op = "update"
    /\ ~last.passed
    /\ xrSession # 0
    /\ ~reticleHeld
    /\ hitTestSource # 0
    /\ referenceSpace.kind # "null"


\* onSessionStart of the running session is suspended at one of its awaits.
SetupPending == xrSession # 0 /\ setupPc[xrSession] # "done"

\* C29: an update(frame) that runs while onSessionStart of the running
\* session (a first or a later one) is suspended at an await queries no
\* hit-test source, none of an earlier session in particular, and leaves the
\* reticle's visibility and pose and lastHitPosition unchanged.
C29_UpdateBeforeSetupIsNoOp ==
    [][(SetupPending /\ Update) =>
          /\ last'.hand = NoQuery
          /\ last'.gaze = NoQuery
          /\ reticle' = reticle
          /\ lastHitPosition' = lastHitPosition]_vars


(***************************************************************************)
(* The reticle pulse (PulseSpec).                                          *)
(***************************************************************************)
\* The step is a select event that spawned an object.
Spawned == last'.op = "select" /\ objectCounter' = objectCounter + 1

\* C30: each spawn of a tracker that is not disposed turns the reticle tint to
\* the attention colour; whenever no delayed callback is pending the tint is
\* the nominal green, and then only a spawn changes it; and pending callbacks
\* do fire, so that after any finite sequence of spawns, however close
\* together, the tint is green again unless the tracker was disposed.
C30_PulseReturnsToGreen ==
    /\ [][/\ (Spawned /\ reticleHeld) => reticle'.color = ReticleYellow
          /\ (reticleHeld' /\ pendingPulses' = 0) => reticle'.color = ReticleGreen
          /\ (reticleHeld' /\ pendingPulses = 0 /\ ~Spawned) =>
                reticle'.color = reticle.color]_vars
    /\ (pendingPulses > 0) ~> (pendingPulses = 0)
\* Two spawns and every delayed callback fired: the tint is green again.
C30_Witness ==
    /\ reticleHeld
    /\ objectCounter >= 2
    /\ pendingPulses = 0
    /\ last.op = "timeout"
    /\ reticle.color = ReticleGreen


\* C31: a reticle-pulse callback that fires after dispose() finds the reticle
\* released and writes nothing: the reticle record (tint included) and every
\* material are as before, whatever the order of spawns, dispose and timer
\* expiries was.
C31_LatePulseWritesNothing ==
    [][(~reticleHeld /\ PulseTimeout) =>
          /\ reticle' = reticle
          /\ material' = material
          /\ pendingPulses' = pendingPulses - 1]_vars
\* A callback fired after dispose(): the released reticle still has the
\* attention colour the spawn gave it.
C31_Witness ==
    /\ last.op = "timeout"
    /\ ~reticleHeld
    /\ reticle.disposed
    /\ reticle.color = ReticleYellow


(***************************************************************************)
(* The error channel of the setup.                                         *)
(***************************************************************************)
\* The step ends onSessionStart of session s, by its last statement or by its
\* catch block.
SetupEnds(s) == setupPc[s] # "done" /\ setupPc'[s] = "done"
\* The step stored a newly acquired gaze source.
GazeAcquired ==
    /\ hitTestSource' # hitTestSource
    /\ hitTestSource' = Len(sources')
    /\ sources'[hitTestSource'].kind = "gaze"

\* C32: when onSessionStart ends, the published error is the setup-failure
\* message exactly when the reference space or the gaze source was not
\* obtained, and none when the gaze source was acquired; the completion of a
\* right-hand request, failed or not, publishes nothing and leaves the gaze
\* source held.
C32_ErrorIffSetupFailed ==
    [][/\ \A s \in 1..Len(setupPc) :
             SetupEnds(s) =>
                /\ store'.error = SetupFailed <=> ~GazeAcquired
                /\ GazeAcquired => store'.error = NoError
       /\ last'.op = "righthand" =>
             /\ store' = store
             /\ hitTestSource' = hitTestSource]_vars
\* In a session whose setup succeeded, a right-hand request failed: no error
\* is published and the gaze source is held.
C32_Witness ==
    /\ last.op = "righthand"
    /\ xrSession # 0
    /\ setupPc[xrSession] = "done"
    /\ nHandReqs > 0
    /\ handReqs = {}
    /\ rightHandHitTestSource = 0
    /\ hitTestSource # 0
    /\ store.error = NoError


(***************************************************************************)
(* The published list of hit-test results.                                 *)
(***************************************************************************)
\* The most recent poll passed the guard and produced no hit.
PollWithoutHit == AfterPoll /\ ~PoseResolved(last)

\* C34: the published hit-test-results list is non-empty only when the most
\* recent poll produced a hit: after a poll with no hit, and after the end of
\* the session, the published list is empty, so that a consumer testing
\* hitTestResults.length > 0 never acts on the results of an earlier frame.
C34_PublishedListIsCurrent ==
    /\ PollWithoutHit => store.hitTestResults = <<>>
    /\ last.op = "sessionend" => store.hitTestResults = <<>>



(***************************************************************************)
(* The published reticle visibility.                                       *)
(***************************************************************************)
\* C33: whenever the reticle exists, the reticle-visible flag published to
\* the store equals the reticle's own visible flag: every assignment of the
\* reticle's visibility by a Surface Tracker (HitTestManager.update,
\* HitTestSystem.update, HitTestSystem's session-end cleanup) is paired with
\* the matching setReticleVisible in the same step.
C33_PublishedVisibilityMatches ==
    /\ reticleHeld => store.reticleVisible = reticle.visible
    /\ hts.registered => hts.reticleVisible = hts.reticle.visible
\* The cleanup of a session's end hid a reticle that an update had shown.
C33_Witness ==
    /\ hts.registered
    /\ hts.last.op = "sessionend"
    /\ hts.hitTestResults # <<>>
    /\ ~hts.reticle.visible
    /\ ~hts.reticleVisible


(***************************************************************************)
(* HitTestSystem after the end of a session.                               *)
(***************************************************************************)
\* A session has ended and no later one has started.
SysBetweenSessions == hts.registered /\ hts.session = 0 /\ hts.nSessions > 0

\* C35: in the HitTestSystem, once the 'sessionend' handler has run and until
\* the next 'sessionstart', no hit-test source is held, the reticle is not
\* visible, reticle-visible=false is published and update() is a no-op,
\* whatever the interleaving: also when 'sessionend' arrives while the
\* handleSessionStart / setupHitTestSource of that session is still awaiting.
C35_EndedSessionHoldsNothing ==
    SysBetweenSessions =>
        /\ hts.hitTestSource = 0
        /\ ~hts.reticle.visible
        /\ ~hts.reticleVisible
        /\ hts.last.op = "update" => ~hts.last.passed


(***************************************************************************)
(* InteractionSystem: the highlight and the published selection.           *)
(***************************************************************************)
\* The parts of the entity whose release was handled last.
ReleasedParts == IF isys.registered /\ isys.last.op = "release" THEN PartsOf(isys.last.e) ELSE {}

\* C36: in the entity-based InteractionSystem, highlighting an entity and
\* then un-highlighting it restores every mesh part to exactly the colour it
\* had before the first highlight, for every original colour, black
\* (0x000000) included, and leaves the emissive intensity at zero.
C36_HighlightRoundTrip ==
    \A p \in ReleasedParts :
        /\ isys.mat[p].color = isys.made[p]
        /\ isys.mat[p].emissiveIntensity = 0


\* The ids of the entities that are pressed.
PressedIds == {IdOf(isys, e) : e \in isys.pressed}

\* C37: in the InteractionSystem the published selected id is none only when
\* no Interactive entity is pressed: for every interleaving of press and
\* release on two Interactive entities, while at least one of them is still
\* pressed (and highlighted), store.selectedObjectId is the id of a pressed
\* entity.
C37_SelectionNamesPressedEntity ==
    (isys.registered /\ isys.pressed # {}) => isys.selectedObjectId \in PressedIds


(***************************************************************************)
(* The XR store: enterXR and exitXR.                                       *)
(***************************************************************************)
\* The step is the end of a call of kind kind whose promise settled as how.
CallEnds(kind, how) ==
    /\ xrs'.pending # xrs.pending
    /\ xrs'.last = XRLast("settle", kind, how)
\* The step is a call of enterXR() made while the store has no world.
EnterWithoutWorld ==
    /\ xrs'.nCalls # xrs.nCalls
    /\ xrs'.last = XRLast("noworld", "enter", "none")
\* The state a successful call of kind kind publishes.
TargetState(kind) == IF kind = "enter" THEN ImmersiveVR ELSE NonImmersive
\* The calls that can be made.
CallIds == {[id |-> i, kind |-> k] : i \in 1..MaxCalls, k \in {"enter", "exit"}}

\* C38: in the XR store every enterXR() and exitXR() that was started
\* eventually completes, with isLoading false, whether the launch or exit
\* succeeded or failed: a failed call records an error message and leaves
\* xrState unchanged, a successful call sets xrState (ImmersiveVR for
\* enterXR, NonImmersive for exitXR); enterXR() with no world only sets the
\* error 'World not initialized' and changes neither xrState nor isLoading.
C38_XRCallsComplete ==
    /\ [][/\ \A kind \in {"enter", "exit"} : \A how \in Settlements :
               CallEnds(kind, how) =>
                  /\ ~xrs'.isLoading
                  /\ how = "resolved" => xrs'.xrState = TargetState(kind)
                  /\ how # "resolved" =>
                        /\ xrs'.error # NoError
                        /\ xrs'.xrState = xrs.xrState
          /\ EnterWithoutWorld =>
                /\ xrs'.error = WorldNotInitialized
                /\ xrs'.xrState = xrs.xrState
                /\ xrs'.isLoading = xrs.isLoading]_vars
    /\ \A c \in CallIds : (c \in xrs.pending) ~> (c \notin xrs.pending)
    /\ xrs.isLoading ~> ~xrs.isLoading
\* A launch was rejected with a value that is no Error while an exit is still
\* in flight.
C38_Witness ==
    /\ xrs.last = XRLast("settle", "enter", "not-an-error")
    /\ xrs.error = FailedToEnter
    /\ ~xrs.isLoading
    /\ xrs.xrState = NonImmersive
    /\ xrs.nCalls = MaxCalls
    /\ \E c \in xrs.pending : c.kind = "exit"

====
